---- MODULE Spec2Model ----
(***************************************************************************)
(* Batch transcode orchestrator of av1-converter-v2.5.py:                  *)
(*   - ConversionThread (worker thread): run, stop, _terminate_process     *)
(*   - VideoConverterApp (UI thread): start_conversion, cancel_conversion, *)
(*     conversion_finished                                                 *)
(*   - the external transcode processes and the queued `finished` signal   *)
(* The worker and the UI thread are interleaved at every read or write of  *)
(* the state they share (_is_running, process, the OS processes).          *)
(***************************************************************************)
EXTENDS Integers, Sequences, FiniteSets, TLC

\* ---------------------------------------------------------------- bounds
MaxFiles == 2
MaxDur == 2
MaxCropped == 1
MaxEqualFiles == 3
MaxClock == 1
MaxJobs == 2
MaxProbes == 3
MaxAppFiles == 3
MaxSecs == 2
\* longest text given to parse_hhmmss, in characters
MaxTextLen == 5

\* probed durations (truncated to whole seconds) of the general batches
Durs == 0..MaxDur
\* per-file percentages the progress generator can yield
PctSamples == {0, 50, 100}
\* crop ranges the UI can hold (start < end <= duration)
CropPoints == {0, 1}
NoCrop == <<>>

\* ------------------------------------------------------------- variables
VARIABLES
  \* VideoConverterApp
  files,              \* number of paths in self.files (paths 1..files)
  crop_settings,      \* self.crop_settings: path -> NoCrop | <<start, end>>
  conversion_thread,  \* TRUE iff self.conversion_thread refers to a thread
  start_btn,          \* start_btn.isEnabled()
  cancel_btn,         \* cancel_btn.isEnabled()
  ui_pc,              \* position of the UI thread
  finished_queue,     \* queued `finished` signals not yet delivered
  \* ConversionThread (the thread conversion_thread last referred to)
  pc,                 \* position of the worker in run()
  t_files,            \* self.files
  t_crop,             \* self.crop_settings
  is_running,         \* self._is_running
  process,            \* self.process: 0 = None, i = handle of file i's process
  idx,                \* 1-based index of the file the loop is at
  durations,          \* durations list of run()
  total_duration,
  done_duration,
  last_pct,
  pct,                \* last value yielded by run_command_with_progress, -1 none
  \* environment
  duration,           \* probed duration per path
  eager,              \* TRUE: FfmpegProgress(cmd) spawns in its constructor
  proc,               \* OS state of the process spawned for file i
  term_sent,          \* live processes that were sent terminate()
  kill_sent,          \* live processes that were sent kill()
  grace_expired,      \* live processes whose wait(timeout=3) timed out
  lingering,          \* earlier workers that emitted finished, not yet returned
  probe_fails,        \* paths for which ffmpeg.probe raises
  \* single operations applied to drawn inputs (no batch running)
  call,               \* the operation, its inputs and, once applied, its result
  probe_cache,        \* self._probe_cache: path -> ProbeInfo
  tool_runs,          \* path -> number of ffmpeg.probe invocations
  fs,                 \* output paths that exist on disk
  now,                \* int(time.time())
  out_paths,          \* output paths chosen by the jobs so far
  \* app.py
  app,                \* MainWindow and its FFmpegTranscoder
  \* VideoConverterApp while the file list and the crop fields are edited
  gui,                \* files, crop_settings, selection, crop fields
  media,              \* path -> duration in half seconds, -1: ffmpeg.probe raises
  \* observation
  raised,             \* some file of the running batch ended in the except clause
  stopped,            \* stop() has been called on the current thread
  emitted,            \* last value emitted on progress_updated, -1 none
  ev,                 \* what the last step emitted, if it was a worker step
  ui_ev               \* which handler the last step ran, if it was a UI step

vars == <<files, crop_settings, conversion_thread, start_btn, cancel_btn, ui_pc,
          finished_queue, pc, t_files, t_crop, is_running, process, idx,
          durations, total_duration, done_duration, last_pct, pct, duration,
          eager, proc, term_sent, kill_sent, grace_expired, lingering, raised,
          stopped, emitted, ev, ui_ev, probe_fails, call, probe_cache,
          tool_runs, fs, now, out_paths, app, gui, media>>

pureVars == <<call, probe_cache, tool_runs, fs, now, out_paths>>

auxVars == <<app, gui, media>>

fnVars == <<pureVars, auxVars>>

uiVars == <<files, crop_settings, conversion_thread, start_btn, cancel_btn,
            ui_pc>>
cfgVars == <<t_files, t_crop, durations, total_duration, duration, eager, probe_fails, fnVars>>
loopVars == <<idx, raised, last_pct, pct>>
sigVars == <<term_sent, kill_sent, grace_expired>>

\* ---------------------------------------------------------------- helpers
\* kind: what was emitted; file: its index; value: the progress_updated value
\* (-1 when none was emitted); prev: the progress_updated value emitted before
NoEv == [kind |-> "none", file |-> 0, value |-> -1, prev |-> -1]

\* variant: an event is attributed to the file after the current one
Event_nextfile(k, f, v, p) == [kind |-> k, file |-> f + 1, value |-> v, prev |-> p]

Event(k, f, v, p) == [kind |-> k, file |-> f, value |-> v, prev |-> p]

Max(a, b) == IF a >= b THEN a ELSE b

Min(a, b) == IF a <= b THEN a ELSE b

RECURSIVE SumTo(_, _)
SumTo(f, n) == IF n = 0 THEN 0 ELSE f[n] + SumTo(f, n - 1)

\* crop ranges valid for a file of duration d
CropsFor(d) == {NoCrop} \cup {c \in CropPoints \X CropPoints : c[1] < c[2] /\ c[2] <= d}

\* lines 246-250: crop length if the file is cropped, else the probed duration
TargetDur(i) ==
  IF t_crop[i] # NoCrop THEN Max(0, t_crop[i][2] - t_crop[i][1]) ELSE duration[i]

\* variant: the running value rounded up instead of truncated
OverallPct_ceil(done, p, target, total) ==
  Max(0, Min(100, (100 * done + p * target + total - 1) \div total))

\* lines 370-371: int((done + pct/100*target)/total*100), clamped to 0..100
OverallPct(done, p, target, total) ==
  Max(0, Min(100, (100 * done + p * target) \div total))

\* variant: the completion value rounded up instead of truncated
DonePct_ceil(done, total) == Max(0, Min(100, (100 * done + total - 1) \div total))

\* line 381: int(done/total*100), clamped to 0..100
DonePct(done, total) == Max(0, Min(100, (100 * done) \div total))

\* variant: an all-zero batch keeps the total 0
TotalDuration_nofloor(s) == s

\* variant: the total counts one second too many
TotalDuration_plus1(s) == s + 1

\* line 252: total_duration = sum(durations) or 1
TotalDuration(s) == IF s = 0 THEN 1 ELSE s

\* QThread.isRunning() of the current thread
isRunning == pc \notin {"none", "returned"}

FileIds == 1..Max(MaxFiles, MaxEqualFiles)

NoProcs == [i \in FileIds |-> "none"]

\* positions of run() inside the iteration of file idx
InFile == {"build", "construct", "capture", "next", "iter_check", "iter_emit",
           "wt_poll", "wt_term", "wt_wait", "wt_kill", "post_check", "post_emit"}

\* ------------------------------------------------------------------- Init
\* state after VideoConverterApp.__init__, with a file list already selected
InitCommon ==
  /\ conversion_thread = FALSE
  /\ start_btn = TRUE
  /\ cancel_btn = FALSE
  /\ ui_pc = "idle"
  /\ finished_queue = 0
  /\ pc = "none"
  /\ t_files = 0
  /\ t_crop = <<>>
  /\ is_running = FALSE
  /\ process = 0
  /\ idx = 0
  /\ durations = <<>>
  /\ total_duration = 1
  /\ done_duration = 0
  /\ last_pct = -1
  /\ pct = -1
  /\ eager \in BOOLEAN
  /\ proc = NoProcs
  /\ term_sent = {}
  /\ kill_sent = {}
  /\ grace_expired = {}
  /\ lingering = 0
  /\ raised = FALSE
  /\ stopped = FALSE
  /\ emitted = -1
  /\ ev = NoEv
  /\ ui_ev = "none"

\* app.py: MainWindow.__init__ (lines 176-267) with an empty list
AppIdle ==
  [count |-> 0, current_index |-> -1, process |-> "none", killed |-> FALSE,
   start_btn |-> TRUE, cancel_btn |-> FALSE, log_file |-> FALSE,
   progress |-> 0, cancelled |-> FALSE, spawned |-> FALSE, ev |-> "none"]

\* paths the user can add to the list
Paths == {"a", "b"}

\* "00:00:00", the text of start_edit and end_edit after __init__ (lines 488, 492)
ZeroText == <<0, 0, 0>>

\* VideoConverterApp.__init__ (lines 452-455, 488-494): nothing listed
GuiIdle ==
  [files |-> <<>>, crop_settings |-> <<>>, selected |-> {},
   start_edit |-> ZeroText, end_edit |-> ZeroText, enabled |-> FALSE,
   probes |-> [p \in Paths |-> 0]]

\* app.py is not running, and the list and crop fields are not being edited
NoApp == [ev |-> "none"]

NoGui == [files |-> <<>>]

InitAuxIdle ==
  /\ app = NoApp
  /\ gui = NoGui
  /\ media = <<>>

\* no single operation is being applied
NoCall == [fn |-> "none"]

InitFnIdle ==
  /\ call = NoCall
  /\ probe_cache = <<>>
  /\ tool_runs = <<>>
  /\ fs = {}
  /\ now = 0
  /\ out_paths = <<>>
  /\ InitAuxIdle

Init ==
  /\ files \in 0..MaxFiles
  /\ duration \in [1..files -> Durs]
  /\ probe_fails = {}
  /\ InitFnIdle
  /\ crop_settings \in [1..files -> CropsFor(MaxDur)]
  /\ \A i \in 1..files : crop_settings[i] \in CropsFor(duration[i])
  /\ Cardinality({i \in 1..files : crop_settings[i] # NoCrop}) <= MaxCropped
  /\ InitCommon

\* ------------------------------------------- ConversionThread._terminate_process
\* One step of _terminate_process, run by the UI thread (from stop) or by the
\* worker (from the progress loop).  lbl is the position inside the method:
\*   "poll"  if self.process and self.process.poll() is None
\*   "term"  self.process.terminate()
\*   "wait"  self.process.wait(timeout=3)
\*   "kill"  self.process.kill()       (the except branch of the wait)
\* TermTarget is the position after the step, "ret" when the method returns.
\* An exception inside the method (process is None) is swallowed: "ret".
\* (TermTarget_nograce is the variant that kills right after terminate.)
TermTarget_nograce(lbl) ==
  CASE lbl = "poll" -> IF process # 0 /\ proc[process] = "alive" THEN "term" ELSE "ret"
    [] lbl = "term" -> IF process = 0 THEN "ret" ELSE "kill"
    [] OTHER -> "ret"

TermTarget(lbl) ==
  CASE lbl = "poll" -> IF process # 0 /\ proc[process] = "alive" THEN "term" ELSE "ret"
    [] lbl = "term" -> IF process = 0 THEN "ret" ELSE "wait"
    [] lbl = "wait" -> IF process # 0 /\ proc[process] = "alive" THEN "kill" ELSE "ret"
    [] OTHER -> "ret"

\* the signals the step sends; Popen sends nothing to a process that has exited
TermEffect(lbl) ==
  LET live == process # 0 /\ proc[process] = "alive" IN
  /\ term_sent' = IF lbl = "term" /\ live THEN term_sent \cup {process} ELSE term_sent
  /\ grace_expired' = IF lbl = "wait" /\ live THEN grace_expired \cup {process}
                      ELSE grace_expired
  /\ kill_sent' = IF lbl = "kill" /\ live THEN kill_sent \cup {process} ELSE kill_sent

\* ------------------------------------------------------- ConversionThread.run
\* variant of NextFile below: an exception ends the whole batch
NextFile_abort(res) ==
  /\ raised' = (raised \/ res = "error")
  /\ idx' = IF res = "error" THEN t_files + 1 ELSE idx + 1
  /\ pc' = "loop_top"
  /\ last_pct' = -1
  /\ pct' = -1
  /\ proc' = [proc EXCEPT ![idx] = IF proc[idx] = "alive" THEN "alive" ELSE "none"]

\* variant of NextFile below: a missing file also skips the file after it
NextFile_skip(res) ==
  /\ raised' = (raised \/ res = "error")
  /\ idx' = IF res = "missing" THEN idx + 2 ELSE idx + 1
  /\ pc' = "loop_top"
  /\ last_pct' = -1
  /\ pct' = -1
  /\ proc' = [proc EXCEPT ![idx] = IF proc[idx] = "alive" THEN "alive" ELSE "none"]

\* variant of NextFile below: an exception leaves run()
NextFile_escape(res) ==
  /\ raised' = (raised \/ res = "error")
  /\ idx' = idx + 1
  /\ pc' = IF res = "error" THEN "returned" ELSE "loop_top"
  /\ last_pct' = -1
  /\ pct' = -1
  /\ proc' = [proc EXCEPT ![idx] = IF proc[idx] = "alive" THEN "alive" ELSE "none"]

\* The end of a loop iteration (continue, the except clause, or the end of the
\* body): the loop moves to the next file.  What was local to the iteration is
\* dead from here on and is cleared, as is the exit status of its process.
NextFile(res) ==
  /\ raised' = (raised \/ res = "error")
  /\ idx' = idx + 1
  /\ pc' = "loop_top"
  /\ last_pct' = -1
  /\ pct' = -1
  /\ proc' = [proc EXCEPT ![idx] = IF proc[idx] = "alive" THEN "alive" ELSE "none"]

\* lines 226-228, reached from line 244: the pre-probe of file i failed and
\* emitted the log "ffprobe failed for <file>: ..." (its duration is then 0)
ProbeFailureLogged(i) == i \in probe_fails

\* lines 235-254: encoder choice, durations of all files, total_duration.
\* The last step of a lingering worker touches nothing the others read, so it
\* is scheduled before the new worker's first step.
WStart ==
  /\ pc = "start"
  /\ lingering = 0
  /\ durations' = [i \in 1..t_files |-> TargetDur(i)]
  /\ total_duration' = TotalDuration(SumTo([i \in 1..t_files |-> TargetDur(i)], t_files))
  /\ done_duration' = 0
  /\ idx' = 1
  /\ pc' = "loop_top"
  /\ ev' = NoEv
  /\ ui_ev' = "none"
  /\ UNCHANGED <<uiVars, finished_queue, t_files, t_crop, duration, eager, probe_fails, fnVars,
                 is_running, process, raised, last_pct, pct, proc, sigVars,
                 lingering, stopped, emitted>>

\* lines 255-260: end of the list, cancellation check, missing-file skip
WLoopTop ==
  /\ pc = "loop_top"
  /\ IF idx > t_files \/ ~is_running
       THEN /\ pc' = "emit_finished"
            /\ ev' = NoEv
            /\ UNCHANGED <<loopVars, proc>>
       ELSE \E exists \in BOOLEAN :
              IF exists
                THEN /\ pc' = "build"
                     /\ ev' = NoEv
                     /\ UNCHANGED <<loopVars, proc>>
                ELSE /\ NextFile("missing")
                     /\ ev' = Event("not_found", idx, -1, emitted)
  /\ ui_ev' = "none"
  /\ UNCHANGED <<uiVars, finished_queue, cfgVars, is_running, process,
                 done_duration, sigVars, lingering, stopped, emitted>>

\* lines 262-354: probe, output path, command; any exception goes to line 386
WBuild ==
  /\ pc = "build"
  /\ \E ok \in BOOLEAN :
       IF ok
         THEN /\ pc' = "construct"
              /\ ev' = Event("converting", idx, -1, emitted)
              /\ UNCHANGED <<loopVars, proc>>
         ELSE /\ NextFile("error")
              /\ ev' = Event("error", idx, -1, emitted)
  /\ ui_ev' = "none"
  /\ UNCHANGED <<uiVars, finished_queue, cfgVars, is_running, process,
                 done_duration, sigVars, lingering, stopped, emitted>>

\* line 356: ff = FfmpegProgress(cmd); spawns here when the library is eager
WConstruct ==
  /\ pc = "construct"
  /\ IF eager
       THEN \E ok \in BOOLEAN :
              IF ok
                THEN /\ proc' = [proc EXCEPT ![idx] = "alive"]
                     /\ pc' = "capture"
                     /\ ev' = Event("spawn", idx, -1, emitted)
                     /\ UNCHANGED loopVars
                ELSE /\ NextFile("error")
                     /\ ev' = Event("error", idx, -1, emitted)
       ELSE /\ pc' = "capture"
            /\ ev' = NoEv
            /\ UNCHANGED <<loopVars, proc>>
  /\ ui_ev' = "none"
  /\ UNCHANGED <<uiVars, finished_queue, cfgVars, is_running, process,
                 done_duration, sigVars, lingering, stopped, emitted>>

\* lines 357-359: self.process = ff.process; last_pct = -1
WCapture ==
  /\ pc = "capture"
  /\ process' = IF eager THEN idx ELSE 0
  /\ last_pct' = -1
  /\ pc' = "next"
  /\ ev' = NoEv
  /\ ui_ev' = "none"
  /\ UNCHANGED <<uiVars, finished_queue, cfgVars, is_running, idx, raised, pct,
                 done_duration, proc, sigVars, lingering, stopped, emitted>>

\* variant: the generator may leave its read loop while the process is alive
ProcessEnded_early(i) == proc[i] # "none"

\* The generator leaves its read loop (to return or to raise) only once the
\* process it reads from has exited.
ProcessEnded(i) == proc[i] \in {"exited", "killed"}

\* line 360: one next() of ff.run_command_with_progress().  A lazy library
\* spawns on the first call and yields 0; afterwards the generator yields a
\* percentage not below the last one, ends when the process has exited with
\* status 0, and raises when it has exited with another status (the status of
\* a process that exited unsignalled is chosen here, where it is read).
WNext ==
  /\ pc = "next"
  /\ IF proc[idx] = "none"
       THEN \E ok \in BOOLEAN :
              IF ok
                THEN /\ proc' = [proc EXCEPT ![idx] = "alive"]
                     /\ pct' = 0
                     /\ pc' = "iter_check"
                     /\ ev' = Event("spawn", idx, -1, emitted)
                     /\ UNCHANGED <<idx, raised, last_pct>>
                ELSE /\ NextFile("error")
                     /\ ev' = Event("error", idx, -1, emitted)
       ELSE \/ \E v \in PctSamples :
                 /\ v >= pct
                 /\ pct' = v
                 /\ pc' = "iter_check"
                 /\ ev' = NoEv
                 /\ UNCHANGED <<idx, raised, last_pct, proc>>
            \/ /\ ProcessEnded(idx)
               /\ proc[idx] = "exited"
               /\ pc' = "post_check"
               /\ ev' = NoEv
               /\ UNCHANGED <<loopVars, proc>>
            \/ /\ ProcessEnded(idx)
               /\ NextFile("error")
               /\ ev' = Event("error", idx, -1, emitted)
  /\ ui_ev' = "none"
  /\ UNCHANGED <<uiVars, finished_queue, cfgVars, is_running, process,
                 done_duration, sigVars, lingering, stopped, emitted>>

\* line 361: if not self._is_running
WIterCheck ==
  /\ pc = "iter_check"
  /\ pc' = IF is_running THEN "iter_emit" ELSE "wt_poll"
  /\ ev' = NoEv
  /\ ui_ev' = "none"
  /\ UNCHANGED <<uiVars, finished_queue, cfgVars, loopVars, is_running, process,
                 done_duration, proc, sigVars, lingering, stopped, emitted>>

\* lines 364-376: overall percentage, emitted when it differs from last_pct
WIterEmit ==
  /\ pc = "iter_emit"
  /\ LET overall_int == OverallPct(done_duration, pct, durations[idx], total_duration) IN
       IF overall_int # last_pct
         THEN /\ last_pct' = overall_int
              /\ emitted' = overall_int
              /\ ev' = Event("progress", idx, overall_int, emitted)
         ELSE /\ ev' = NoEv
              /\ UNCHANGED <<last_pct, emitted>>
  /\ pc' = "next"
  /\ ui_ev' = "none"
  /\ UNCHANGED <<uiVars, finished_queue, cfgVars, idx, raised, pct, is_running,
                 process, done_duration, proc, sigVars, lingering, stopped>>

\* lines 362-363: self._terminate_process() run by the worker, then break
WTerminate ==
  /\ pc \in {"wt_poll", "wt_term", "wt_wait", "wt_kill"}
  /\ LET lbl == CASE pc = "wt_poll" -> "poll" [] pc = "wt_term" -> "term"
                  [] pc = "wt_wait" -> "wait" [] OTHER -> "kill"
         tgt == TermTarget(lbl)
     IN /\ TermEffect(lbl)
        /\ pc' = CASE tgt = "term" -> "wt_term" [] tgt = "wait" -> "wt_wait"
                   [] tgt = "kill" -> "wt_kill" [] OTHER -> "post_check"
  /\ ev' = NoEv
  /\ ui_ev' = "none"
  /\ UNCHANGED <<uiVars, finished_queue, cfgVars, loopVars, is_running, process,
                 done_duration, proc, lingering, stopped, emitted>>

\* line 379: if self._is_running (after the progress loop ended or broke)
WPostCheck ==
  /\ pc = "post_check"
  /\ IF is_running
       THEN /\ pc' = "post_emit"
            /\ UNCHANGED <<loopVars, proc>>
       ELSE NextFile("cancelled")
  /\ ev' = NoEv
  /\ ui_ev' = "none"
  /\ UNCHANGED <<uiVars, finished_queue, cfgVars, is_running, process,
                 done_duration, sigVars, lingering, stopped, emitted>>

\* lines 380-383: done_duration += target_dur, completion emission, log
WPostEmit ==
  /\ pc = "post_emit"
  /\ done_duration' = done_duration + durations[idx]
  /\ emitted' = DonePct(done_duration + durations[idx], total_duration)
  /\ ev' = Event("completed", idx, DonePct(done_duration + durations[idx], total_duration),
                 emitted)
  /\ NextFile("completed")
  /\ ui_ev' = "none"
  /\ UNCHANGED <<uiVars, finished_queue, cfgVars, is_running, process, sigVars,
                 lingering, stopped>>

\* line 388: self.finished.emit(), queued to the UI thread.  The locals of
\* run() are dead from here on and are cleared.
WEmitFinished ==
  /\ pc = "emit_finished"
  /\ finished_queue' = finished_queue + 1
  /\ pc' = "set_false"
  /\ idx' = 0
  /\ done_duration' = 0
  /\ emitted' = -1
  /\ raised' = FALSE
  /\ ev' = Event("finished", 0, -1, emitted)
  /\ ui_ev' = "none"
  /\ UNCHANGED <<uiVars, cfgVars, last_pct, pct, is_running, process, proc,
                 sigVars, lingering, stopped>>

\* line 389: self._is_running = False; run() returns
WSetFalse ==
  /\ pc = "set_false"
  /\ is_running' = FALSE
  /\ pc' = "returned"
  /\ ev' = NoEv
  /\ ui_ev' = "none"
  /\ UNCHANGED <<uiVars, finished_queue, cfgVars, loopVars, process,
                 done_duration, proc, sigVars, lingering, stopped, emitted>>

\* a worker of an earlier batch executes line 389 and returns
LingeringReturns ==
  /\ lingering > 0
  /\ lingering' = lingering - 1
  /\ ev' = NoEv
  /\ ui_ev' = "none"
  /\ UNCHANGED <<uiVars, finished_queue, pc, cfgVars, loopVars, is_running,
                 process, done_duration, proc, sigVars, stopped, emitted>>

\* ------------------------------------------------------ external processes
\* A transcode process exits.  One that was signalled has a non-zero status
\* ("killed"); a process sent terminate() may also ignore it and stay alive.
\* The status matters only to the generator reading this file's process.
ProcExitOf(i) ==
  /\ proc[i] = "alive"
  /\ proc' = [proc EXCEPT ![i] =
                IF i = idx /\ pc \in InFile
                  THEN IF i \in term_sent \cup kill_sent THEN "killed" ELSE "exited"
                  ELSE "none"]
  /\ term_sent' = term_sent \ {i}
  /\ kill_sent' = kill_sent \ {i}
  /\ grace_expired' = grace_expired \ {i}
  /\ ev' = NoEv
  /\ ui_ev' = "none"
  /\ UNCHANGED <<uiVars, finished_queue, pc, cfgVars, loopVars, is_running,
                 process, done_duration, lingering, stopped, emitted>>

ProcExit == \E i \in FileIds : ProcExitOf(i)

\* a process that was sent kill() exits
KilledExit == \E i \in kill_sent : ProcExitOf(i)

\* -------------------------------------------------------- VideoConverterApp
BITRATE_MIN_KBPS == 50
BITRATE_MAX_KBPS == 200000
CRF_MIN == 0
CRF_MAX_HEVC == 51
CRF_MAX_AV1 == 63

\* the value None of the getters (no clamped value is negative)
None == -1

\* contents of the bitrate / quality field and of the audio bitrate field
Texts == {"", "abc", "2000"}
AudioTexts == {"", "160"}

\* int(text) for the texts that parse; it raises ValueError for the others
IntOf ==
  ("2000" :> 2000) @@ ("160" :> 160) @@ ("-5" :> -5) @@ ("0" :> 0) @@ ("10" :> 10)
  @@ ("49" :> 49) @@ ("50" :> 50) @@ ("51" :> 51) @@ ("52" :> 52) @@ ("63" :> 63)
  @@ ("64" :> 64) @@ ("100" :> 100) @@ ("199999" :> 199999)
  @@ ("200000" :> 200000) @@ ("200001" :> 200001) @@ ("999999" :> 999999)

\* variant: the upper bound is not enforced
clamp_noupper(v, lo, hi) == Max(lo, v)

\* lines 810-811
clamp(v, lo, hi) == Max(lo, Min(hi, v))

\* variant: a field that does not parse falls back to the minimum bitrate
get_bitrate_default(txt) ==
  IF txt \notin DOMAIN IntOf THEN BITRATE_MIN_KBPS
  ELSE clamp(IntOf[txt], BITRATE_MIN_KBPS, BITRATE_MAX_KBPS)

\* lines 814-828: None for an empty or non-integer field, else the clamped value
get_bitrate(txt) ==
  IF txt = "" THEN None
  ELSE IF txt \notin DOMAIN IntOf THEN None
  ELSE clamp(IntOf[txt], BITRATE_MIN_KBPS, BITRATE_MAX_KBPS)

\* variant: the AV1 range is applied to both codecs
get_quality_value_av1(txt, codec_av1) ==
  IF txt = "" THEN None
  ELSE IF txt \notin DOMAIN IntOf THEN None
  ELSE clamp(IntOf[txt], CRF_MIN, CRF_MAX_AV1)

\* lines 830-843
get_quality_value(txt, codec_av1) ==
  IF txt = "" THEN None
  ELSE IF txt \notin DOMAIN IntOf THEN None
  ELSE clamp(IntOf[txt], CRF_MIN, IF codec_av1 THEN CRF_MAX_AV1 ELSE CRF_MAX_HEVC)

\* lines 983-988: buttons back to idle, self.conversion_thread = None
conversion_finished ==
  /\ start_btn' = TRUE
  /\ cancel_btn' = FALSE
  /\ conversion_thread' = FALSE

\* lines 947-966: ConversionThread(...) (__init__ lines 136-138) and start().
\* If the thread the attribute referred to has emitted finished but not
\* returned, it goes on running beside the new one.  Processes are tracked for
\* one thread at a time: a new one is created once none of the old is alive.
NewThread ==
  /\ \A i \in FileIds : proc[i] # "alive"
  /\ conversion_thread' = TRUE
  /\ lingering' = IF pc = "set_false" THEN lingering + 1 ELSE lingering
  /\ pc' = "start"
  /\ t_files' = files
  /\ t_crop' = crop_settings
  /\ is_running' = TRUE
  /\ process' = 0
  /\ idx' = 0
  /\ durations' = <<>>
  /\ total_duration' = 1
  /\ done_duration' = 0
  /\ last_pct' = -1
  /\ pct' = -1
  /\ proc' = NoProcs
  /\ term_sent' = {}
  /\ kill_sent' = {}
  /\ grace_expired' = {}
  /\ raised' = FALSE
  /\ stopped' = FALSE
  /\ emitted' = -1

threadVars == <<pc, t_files, t_crop, is_running, process, idx, durations,
                total_duration, done_duration, last_pct, pct, proc, term_sent,
                kill_sent, grace_expired, lingering, raised, stopped, emitted>>

\* lines 926-966.  mode: "bitrate" or "quality"; txt: the rate field of that
\* mode; atxt: the audio bitrate field, read by int() at line 959 after the
\* buttons were switched (a ValueError there leaves the handler).
start_conversion(mode, txt, codec_av1, atxt) ==
  IF conversion_thread /\ isRunning
    THEN UNCHANGED <<conversion_thread, start_btn, cancel_btn, threadVars>>
  ELSE IF files = 0
    THEN UNCHANGED <<conversion_thread, start_btn, cancel_btn, threadVars>>
  ELSE IF (IF mode = "bitrate" THEN get_bitrate(txt)
           ELSE get_quality_value(txt, codec_av1)) = None
    THEN UNCHANGED <<conversion_thread, start_btn, cancel_btn, threadVars>>
  ELSE /\ start_btn' = FALSE
       /\ cancel_btn' = TRUE
       /\ IF atxt \notin DOMAIN IntOf
            THEN UNCHANGED <<conversion_thread, threadVars>>
            ELSE NewThread

\* what start_conversion was called with
StartCase(txt, atxt) ==
  IF files = 0 THEN "start_nofiles"
  ELSE IF txt \notin DOMAIN IntOf THEN "start_norate"
  ELSE IF atxt \notin DOMAIN IntOf THEN "start_noaudio"
  ELSE "start_valid"

\* line 602: the slot of start_btn.clicked; a disabled button is not clicked.
\* The queued finished signal is delivered before later user input: the user
\* can click only after the event loop has handled what was queued.
StartConversion ==
  /\ ui_pc = "idle"
  /\ finished_queue = 0
  /\ start_btn
  /\ \E mode \in {"bitrate", "quality"}, txt \in Texts, codec_av1 \in BOOLEAN,
        atxt \in AudioTexts :
       /\ start_conversion(mode, txt, codec_av1, atxt)
       /\ ui_ev' = StartCase(txt, atxt)
  /\ ev' = NoEv
  /\ UNCHANGED <<files, crop_settings, ui_pc, finished_queue, duration, eager, probe_fails, fnVars>>

\* line 604: the slot of cancel_btn.clicked.
\* lines 968-969: if self.conversion_thread and self.conversion_thread.isRunning()
CancelConversion ==
  /\ ui_pc = "idle"
  /\ finished_queue = 0
  /\ cancel_btn
  /\ IF conversion_thread /\ isRunning
       THEN /\ ui_pc' = "stop"
            /\ ui_ev' = "cancel"
       ELSE /\ ui_pc' = "idle"
            /\ ui_ev' = "cancel_noop"
  /\ ev' = NoEv
  /\ UNCHANGED <<files, crop_settings, conversion_thread, start_btn, cancel_btn,
                 finished_queue, threadVars, duration, eager, probe_fails, fnVars>>

\* line 392: stop() sets self._is_running = False
UIStop ==
  /\ ui_pc = "stop"
  /\ is_running' = FALSE
  /\ stopped' = TRUE
  /\ ui_pc' = "t_poll"
  /\ ev' = NoEv
  /\ ui_ev' = "none"
  /\ UNCHANGED <<files, crop_settings, conversion_thread, start_btn, cancel_btn,
                 finished_queue, pc, cfgVars, loopVars, process, done_duration,
                 proc, sigVars, lingering, emitted>>

\* line 393: stop() calls self._terminate_process() on the UI thread
UITerminate ==
  /\ ui_pc \in {"t_poll", "t_term", "t_wait", "t_kill"}
  /\ LET lbl == CASE ui_pc = "t_poll" -> "poll" [] ui_pc = "t_term" -> "term"
                  [] ui_pc = "t_wait" -> "wait" [] OTHER -> "kill"
         tgt == TermTarget(lbl)
     IN /\ TermEffect(lbl)
        /\ ui_pc' = CASE tgt = "term" -> "t_term" [] tgt = "wait" -> "t_wait"
                      [] tgt = "kill" -> "t_kill" [] OTHER -> "join"
  /\ ev' = NoEv
  /\ ui_ev' = "none"
  /\ UNCHANGED <<files, crop_settings, conversion_thread, start_btn, cancel_btn,
                 finished_queue, pc, cfgVars, loopVars, is_running, process,
                 done_duration, proc, lingering, stopped, emitted>>

\* lines 970-973: wait() for the thread, log, self.conversion_finished()
UIJoin ==
  /\ ui_pc = "join"
  /\ pc = "returned"
  /\ conversion_finished
  /\ ui_pc' = "idle"
  /\ ev' = NoEv
  /\ ui_ev' = "cancelled"
  /\ UNCHANGED <<files, crop_settings, finished_queue, threadVars, duration, eager, probe_fails, fnVars>>

\* the finished signal reaches its slot conversion_finished (line 964)
DeliverFinished ==
  /\ ui_pc = "idle"
  /\ finished_queue > 0
  /\ finished_queue' = finished_queue - 1
  /\ conversion_finished
  /\ ev' = NoEv
  /\ ui_ev' = "finished"
  /\ UNCHANGED <<files, crop_settings, ui_pc, threadVars, duration, eager, probe_fails, fnVars>>

\* ------------------------------------------------------------------- Spec
Next ==
  \/ WStart
  \/ WLoopTop
  \/ WBuild
  \/ WConstruct
  \/ WCapture
  \/ WNext
  \/ WIterCheck
  \/ WIterEmit
  \/ WTerminate
  \/ WPostCheck
  \/ WPostEmit
  \/ WEmitFinished
  \/ WSetFalse
  \/ LingeringReturns
  \/ ProcExit
  \/ StartConversion
  \/ CancelConversion
  \/ UIStop
  \/ UITerminate
  \/ UIJoin
  \/ DeliverFinished

Spec == Init /\ [][Next]_vars

\* the batches of Init, with any of the paths of duration 0 failing to probe
InitLog ==
  /\ files \in 0..MaxFiles
  /\ duration \in [1..files -> Durs]
  /\ probe_fails \in SUBSET {i \in 1..files : duration[i] = 0}
  /\ InitFnIdle
  /\ crop_settings \in [1..files -> CropsFor(MaxDur)]
  /\ \A i \in 1..files : crop_settings[i] \in CropsFor(duration[i])
  /\ Cardinality({i \in 1..files : crop_settings[i] # NoCrop}) <= MaxCropped
  /\ InitCommon

SpecLog == InitLog /\ [][Next]_vars

\* the batches of Init with a library that spawns ffmpeg when its generator is
\* first advanced
InitTotals ==
  /\ Init
  /\ ~eager

SpecTotals == InitTotals /\ [][Next]_vars

\* the batches of Init in which every file exists when the worker reaches it
\* (line 258 finds the path)
WLoopTopPresent ==
  /\ WLoopTop
  /\ ev'.kind # "not_found"

NextPresent ==
  \/ WStart
  \/ WLoopTopPresent
  \/ WBuild
  \/ WConstruct
  \/ WCapture
  \/ WNext
  \/ WIterCheck
  \/ WIterEmit
  \/ WTerminate
  \/ WPostCheck
  \/ WPostEmit
  \/ WEmitFinished
  \/ WSetFalse
  \/ LingeringReturns
  \/ ProcExit
  \/ StartConversion
  \/ CancelConversion
  \/ UIStop
  \/ UITerminate
  \/ UIJoin
  \/ DeliverFinished

SpecPresent == Init /\ [][NextPresent]_vars

\* the batch of the end-to-end scenario: two files of 100 s and 50 s, no crop
InitScenario ==
  /\ files = 2
  /\ duration = <<100, 50>>
  /\ crop_settings = <<NoCrop, NoCrop>>
  /\ probe_fails = {}
  /\ InitFnIdle
  /\ InitCommon

SpecScenario == InitScenario /\ [][Next]_vars

\* batches of up to MaxEqualFiles files that all have the same positive duration
InitEqual ==
  /\ files \in 1..MaxEqualFiles
  /\ \E d \in 1..MaxDur : duration = [i \in 1..files |-> d]
  /\ crop_settings = [i \in 1..files |-> NoCrop]
  /\ probe_fails = {}
  /\ InitFnIdle
  /\ InitCommon

SpecEqual == InitEqual /\ [][Next]_vars

\* Batches whose library hands out the handle of a live process, with the
\* threads scheduled fairly inside _terminate_process (every call of it is
\* bounded: poll, terminate and kill return at once, wait after 3 s) and a
\* killed process exiting.
InitFair ==
  /\ files \in 1..MaxFiles
  /\ duration = [i \in 1..files |-> 1]
  /\ crop_settings = [i \in 1..files |-> NoCrop]
  /\ probe_fails = {}
  /\ InitFnIdle
  /\ InitCommon
  /\ eager

FairSpec ==
  /\ InitFair
  /\ [][Next]_vars
  /\ WF_vars(UITerminate)
  /\ WF_vars(WTerminate)
  /\ WF_vars(KilledExit)

\* ---- every run() ends
\* The worker thread is scheduled as long as it has a step to take; a worker
\* of an earlier batch takes its last step; a process that is alive exits in
\* the end (by itself or signalled); and a generator whose process has exited
\* runs out of buffered output: its next() returns or raises.
Worker ==
  \/ WStart
  \/ WLoopTop
  \/ WBuild
  \/ WConstruct
  \/ WCapture
  \/ WNext
  \/ WIterCheck
  \/ WIterEmit
  \/ WTerminate
  \/ WPostCheck
  \/ WPostEmit
  \/ WEmitFinished
  \/ WSetFalse

GeneratorEnds ==
  /\ WNext
  /\ pc' # "iter_check"

InitRun ==
  /\ files \in 1..MaxFiles
  /\ duration = [i \in 1..files |-> 1]
  /\ crop_settings = [i \in 1..files |-> NoCrop]
  /\ probe_fails = {}
  /\ InitFnIdle
  /\ InitCommon

FairRun ==
  /\ InitRun
  /\ [][Next]_vars
  /\ WF_vars(Worker)
  /\ WF_vars(LingeringReturns)
  /\ WF_vars(ProcExit)
  /\ SF_vars(GeneratorEnds)

\* ------------------------------------------------ single operations
\* The operations below are applied on their own to inputs drawn by Init: the
\* application is idle (no files, no thread) and stays so.
mainVars == <<files, crop_settings, conversion_thread, start_btn, cancel_btn,
              ui_pc, finished_queue, pc, t_files, t_crop, is_running, process,
              idx, durations, total_duration, done_duration, last_pct, pct,
              duration, eager, proc, term_sent, kill_sent, grace_expired,
              lingering, raised, stopped, emitted, ev, ui_ev, probe_fails>>

InitIdleApp ==
  /\ files = 0
  /\ duration = <<>>
  /\ crop_settings = <<>>
  /\ probe_fails = {}
  /\ InitCommon
  /\ eager = FALSE

\* ---- VideoConverterApp.get_bitrate / get_quality_value
\* contents of bitrate_edit / quality_edit
RateTexts == DOMAIN IntOf \cup {"", "abc"}

InitRate ==
  /\ InitIdleApp
  /\ call \in [fn : {"get_bitrate", "get_quality_value"}, txt : RateTexts,
               codec_av1 : BOOLEAN, done : {FALSE}, out : {None}]
  /\ probe_cache = <<>>
  /\ tool_runs = <<>>
  /\ fs = {}
  /\ now = 0
  /\ out_paths = <<>>
  /\ InitAuxIdle

ApplyGetBitrate ==
  /\ call.fn = "get_bitrate"
  /\ ~call.done
  /\ call' = [call EXCEPT !.done = TRUE, !.out = get_bitrate(call.txt)]
  /\ UNCHANGED <<mainVars, auxVars, probe_cache, tool_runs, fs, now, out_paths>>

ApplyGetQuality ==
  /\ call.fn = "get_quality_value"
  /\ ~call.done
  /\ call' = [call EXCEPT !.done = TRUE,
                          !.out = get_quality_value(call.txt, call.codec_av1)]
  /\ UNCHANGED <<mainVars, auxVars, probe_cache, tool_runs, fs, now, out_paths>>

NextRate ==
  \/ ApplyGetBitrate
  \/ ApplyGetQuality

SpecRate == InitRate /\ [][NextRate]_vars

\* ---- ConversionThread.available_encoders / choose_encoder / map_preset
\* names ffmpeg -encoders can list; [] when the call fails (lines 155-156)
EncoderNames == {"hevc_nvenc", "av1_nvenc", "libsvtav1", "libx265", "libaom-av1",
                 "h264_nvenc"}

Codecs == {"H.265", "AV1"}

\* variant: AV1 always takes the hardware encoder
choose_encoder_hw(codec, encoders) ==
  IF codec = "H.265"
    THEN IF "hevc_nvenc" \in encoders THEN "hevc_nvenc" ELSE "libx265"
    ELSE "av1_nvenc"

\* lines 157-167
choose_encoder(codec, encoders) ==
  IF codec = "H.265"
    THEN IF "hevc_nvenc" \in encoders THEN "hevc_nvenc" ELSE "libx265"
    ELSE IF "av1_nvenc" \in encoders THEN "av1_nvenc"
         ELSE IF "libsvtav1" \in encoders THEN "libsvtav1"
         ELSE "libaom-av1"

\* line 527: the presets of preset_combo, fastest first
presets == <<"ultrafast", "superfast", "veryfast", "faster", "fast", "medium",
             "slow", "slower", "veryslow">>

\* lines 176-186
nvenc_map ==
  ("ultrafast" :> "p1") @@ ("superfast" :> "p2") @@ ("veryfast" :> "p3")
  @@ ("faster" :> "p4") @@ ("fast" :> "p5") @@ ("medium" :> "p6")
  @@ ("slow" :> "p7") @@ ("slower" :> "p7") @@ ("veryslow" :> "p7")

\* variant: veryfast shares the number of superfast
svt_map_flat ==
  ("ultrafast" :> "13") @@ ("superfast" :> "12") @@ ("veryfast" :> "12")
  @@ ("faster" :> "9") @@ ("fast" :> "8") @@ ("medium" :> "6")
  @@ ("slow" :> "4") @@ ("slower" :> "3") @@ ("veryslow" :> "2")

\* lines 187-197
svt_map ==
  ("ultrafast" :> "13") @@ ("superfast" :> "12") @@ ("veryfast" :> "10")
  @@ ("faster" :> "9") @@ ("fast" :> "8") @@ ("medium" :> "6")
  @@ ("slow" :> "4") @@ ("slower" :> "3") @@ ("veryslow" :> "2")

\* lines 198-202: dict.get(ui_preset, default)
map_preset(encoder, ui_preset) ==
  IF encoder \in {"hevc_nvenc", "av1_nvenc"}
    THEN IF ui_preset \in DOMAIN nvenc_map THEN nvenc_map[ui_preset] ELSE "p6"
  ELSE IF encoder = "libsvtav1"
    THEN IF ui_preset \in DOMAIN svt_map THEN svt_map[ui_preset] ELSE "6"
  ELSE ui_preset

\* the encoders choose_encoder can return
Encoders == {"hevc_nvenc", "av1_nvenc", "libsvtav1", "libx265", "libaom-av1"}

\* preset strings handed to map_preset: the nine levels and unknown ones
PresetInputs == {presets[i] : i \in 1..Len(presets)} \cup {"turbo", "Medium", ""}

InitEncoder ==
  /\ InitIdleApp
  /\ \/ call \in [fn : {"choose_encoder"}, codec : Codecs,
                   encoders : SUBSET EncoderNames, done : {FALSE}, out : {""}]
     \/ call \in [fn : {"map_preset"}, encoder : Encoders, ui_preset : PresetInputs,
                   ui_preset2 : PresetInputs, done : {FALSE}, out : {""},
                   out2 : {""}]
  /\ probe_cache = <<>>
  /\ tool_runs = <<>>
  /\ fs = {}
  /\ now = 0
  /\ out_paths = <<>>
  /\ InitAuxIdle

ApplyChooseEncoder ==
  /\ call.fn = "choose_encoder"
  /\ ~call.done
  /\ call' = [call EXCEPT !.done = TRUE,
                          !.out = choose_encoder(call.codec, call.encoders)]
  /\ UNCHANGED <<mainVars, auxVars, probe_cache, tool_runs, fs, now, out_paths>>

\* map_preset applied to two presets for the same encoder
ApplyMapPreset ==
  /\ call.fn = "map_preset"
  /\ ~call.done
  /\ call' = [call EXCEPT !.done = TRUE,
                          !.out = map_preset(call.encoder, call.ui_preset),
                          !.out2 = map_preset(call.encoder, call.ui_preset2)]
  /\ UNCHANGED <<mainVars, auxVars, probe_cache, tool_runs, fs, now, out_paths>>

NextEncoder ==
  \/ ApplyChooseEncoder
  \/ ApplyMapPreset

SpecEncoder == InitEncoder /\ [][NextEncoder]_vars

\* ---- ConversionThread.run: copy decision and command assembly
\* codec names ffprobe reports, in several spellings; "" stands for
\* (pinfo.vcodec or '') of a stream without codec name
VCodecs == {"hevc", "HEVC", "Hevc", "av1", "AV1", "h264", ""}

\* variant: the codec name is compared as reported
lower_asis(str) == str

\* str.lower() on the codec names
lower(str) ==
  CASE str \in {"hevc", "HEVC", "Hevc"} -> "hevc"
    [] str \in {"av1", "AV1"} -> "av1"
    [] OTHER -> str

\* str() of a Python int: its decimal digits, with a sign when negative
Digits == <<"0", "1", "2", "3", "4", "5", "6", "7", "8", "9">>

RECURSIVE str(_)
str(n) ==
  IF n < 0 THEN "-" \o str(-n)
  ELSE IF n < 10 THEN Digits[n + 1]
  ELSE str(n \div 10) \o Digits[(n % 10) + 1]

\* the numbers that enter a command: crop points, the default quality, the
\* audio bitrate, the rate values and their doubles
StrArgs ==
  LET vs == {0, 1, 23, 160} \cup {IntOf[t] : t \in DOMAIN IntOf}
  IN {v \in vs : v >= 0} \cup {2 * v : v \in {w \in vs : w >= 0}}

\* str() of the numbers that enter a command
Str == [n \in StrArgs |-> str(n)]

\* the jobs: what run() reads while it builds the command of one file
Jobs ==
  {j \in [smart : BOOLEAN, vcodec : VCodecs, codec : Codecs, encoder : Encoders,
          crop : {NoCrop, <<0, 1>>}, container : {"MP4", "MKV"},
          rate_mode : {"bitrate", "quality"}, bitrate_kbps : {None, 2000},
          crf_cq_value : {None, 23}, audio_copy : BOOLEAN,
          audio_codec : {"AAC", "Opus"}] :
     /\ j.encoder \in (IF j.codec = "H.265" THEN {"hevc_nvenc", "libx265"}
                       ELSE {"av1_nvenc", "libsvtav1", "libaom-av1"})
     /\ (j.bitrate_kbps # None) = (j.rate_mode = "bitrate")
     /\ (j.crf_cq_value # None) = (j.rate_mode = "quality")}

\* variant: the NVENC buffer is as large as the target bitrate
RateFlags_bufsame(j) ==
  IF j.rate_mode = "bitrate"
    THEN IF j.encoder \in {"hevc_nvenc", "av1_nvenc"}
           THEN <<"-rc:v", "vbr", "-b:v", Str[j.bitrate_kbps] \o "k", "-maxrate",
                  Str[j.bitrate_kbps] \o "k", "-bufsize",
                  Str[j.bitrate_kbps] \o "k">>
           ELSE <<"-b:v", Str[j.bitrate_kbps] \o "k">>
    ELSE <<"-crf", Str[23]>>

\* lines 320-331: rate control flags; << >> with raised when the bitrate is unusable
RateFlags(j) ==
  IF j.rate_mode = "bitrate"
    THEN IF j.encoder \in {"hevc_nvenc", "av1_nvenc"}
           THEN <<"-rc:v", "vbr", "-b:v", Str[j.bitrate_kbps] \o "k", "-maxrate",
                  Str[j.bitrate_kbps] \o "k", "-bufsize",
                  Str[j.bitrate_kbps * 2] \o "k">>
           ELSE <<"-b:v", Str[j.bitrate_kbps] \o "k">>
    ELSE LET q == IF j.crf_cq_value # None /\ j.crf_cq_value >= 0
                    THEN j.crf_cq_value ELSE 23
         IN IF j.encoder \in {"hevc_nvenc", "av1_nvenc"}
              THEN <<"-rc:v", "vbr", "-cq:v", Str[q]>>
            ELSE IF j.encoder = "libsvtav1" THEN <<"-crf", Str[q], "-b:v", "0">>
            ELSE <<"-crf", Str[q]>>

\* lines 333-343
AudioFlags(j) ==
  IF j.audio_copy THEN <<"-c:a", "copy">>
  ELSE IF j.audio_codec = "AAC" THEN <<"-c:a", "aac", "-b:a", Str[160] \o "k">>
  ELSE IF j.audio_codec = "Opus" THEN <<"-c:a", "libopus", "-b:a", Str[160] \o "k">>
  ELSE <<"-c:a", "copy">>

\* lines 263-348: the command of one job; raised when line 322 raises
BuildCommand(j) ==
  LET in_vcodec == lower(j.vcodec)
      desired_vcodec == IF j.codec = "AV1" THEN "av1" ELSE "hevc"
      do_stream_copy == j.smart /\ in_vcodec = desired_vcodec
      seek == IF j.crop # NoCrop THEN <<"-ss", Str[j.crop[1]]>> ELSE <<>>
      upto == IF j.crop # NoCrop THEN <<"-to", Str[j.crop[2]]>> ELSE <<>>
      flags == IF j.container = "MP4" THEN <<"-movflags", "+faststart">> ELSE <<>>
      bad_rate == /\ ~do_stream_copy
                  /\ j.rate_mode = "bitrate"
                  /\ (j.bitrate_kbps = None \/ j.bitrate_kbps <= 0)
      codecs == IF do_stream_copy THEN <<"-c", "copy">>
                ELSE <<"-c:v", j.encoder, "-preset", map_preset(j.encoder, "medium")>>
                     \o RateFlags(j) \o AudioFlags(j) \o <<"-c:s", "copy">>
  IN IF bad_rate THEN [raised |-> TRUE, cmd |-> <<>>]
     ELSE [raised |-> FALSE,
           cmd |-> <<"ffmpeg", "-hide_banner", "-nostats">> \o seek
                   \o <<"-i", "file">> \o upto \o <<"-map", "0">> \o flags \o codecs
                   \o <<"-progress", "pipe:2", "out_path">>]

InitBuild ==
  /\ InitIdleApp
  /\ call \in [fn : {"build"}, job : Jobs, done : {FALSE},
               out : {[raised |-> FALSE, cmd |-> <<>>]}]
  /\ probe_cache = <<>>
  /\ tool_runs = <<>>
  /\ fs = {}
  /\ now = 0
  /\ out_paths = <<>>
  /\ InitAuxIdle

ApplyBuild ==
  /\ call.fn = "build"
  /\ ~call.done
  /\ call' = [call EXCEPT !.done = TRUE, !.out = BuildCommand(call.job)]
  /\ UNCHANGED <<mainVars, auxVars, probe_cache, tool_runs, fs, now, out_paths>>

NextBuild == ApplyBuild

SpecBuild == InitBuild /\ [][NextBuild]_vars

\* ---- start_conversion, then the command run() builds from what it passed
\* variant: the field keeps what the user typed
TextAfter_keep(txt, lo, hi) == txt

\* lines 815-827 / 831-842: the text of the field after the getter returned;
\* a clamped value is written back with setText(str(v_clamped))
TextAfter(txt, lo, hi) ==
  IF txt = "" \/ txt \notin DOMAIN IntOf THEN txt
  ELSE IF IntOf[txt] # clamp(IntOf[txt], lo, hi) THEN str(clamp(IntOf[txt], lo, hi))
  ELSE txt

\* lines 789-790
get_codec(codec_av1) == IF codec_av1 THEN "AV1" ELSE "H.265"

\* lines 799-801
quality_max(codec_av1) == IF codec_av1 THEN CRF_MAX_AV1 ELSE CRF_MAX_HEVC

\* what the thread was constructed with (lines 947-961), before a start
NoConfig == [rate_mode |-> "", bitrate_kbps |-> None, crf_cq_value |-> None,
             codec |-> ""]

NoCommand == [raised |-> FALSE, cmd |-> <<>>]

\* the window when Start is clicked with files listed and a valid audio
\* bitrate: rate mode, the text of the field of that mode, the codec radio
\* button, the smart-copy box; and what the worker will find: the encoders of
\* the ffmpeg build and the codec of the input
InitStart ==
  /\ InitIdleApp
  /\ call \in [fn : {"start"}, stage : {"clicked"}, rate_mode : {"bitrate", "quality"},
               txt : RateTexts, field : RateTexts, codec_av1 : BOOLEAN,
               smart : BOOLEAN, vcodec : {"hevc", "h264"},
               encoders : SUBSET EncoderNames,
               config : {NoConfig}, encoder : {""}, out : {NoCommand}]
  /\ call.field = call.txt
  /\ probe_cache = <<>>
  /\ tool_runs = <<>>
  /\ fs = {}
  /\ now = 0
  /\ out_paths = <<>>
  /\ InitAuxIdle

\* lines 934-961: the getter of the rate mode (which may rewrite its field),
\* the early return on None, and the arguments of ConversionThread
ApplyStartConversion ==
  /\ call.fn = "start"
  /\ call.stage = "clicked"
  /\ LET bitrate == IF call.rate_mode = "bitrate" THEN get_bitrate(call.txt) ELSE None
         crf_cq == IF call.rate_mode = "quality"
                     THEN get_quality_value(call.txt, call.codec_av1) ELSE None
         field == IF call.rate_mode = "bitrate"
                    THEN TextAfter(call.txt, BITRATE_MIN_KBPS, BITRATE_MAX_KBPS)
                    ELSE TextAfter(call.txt, CRF_MIN, quality_max(call.codec_av1))
     IN IF (call.rate_mode = "bitrate" /\ bitrate = None)
           \/ (call.rate_mode = "quality" /\ crf_cq = None)
          THEN call' = [call EXCEPT !.stage = "rejected", !.field = field]
          ELSE call' = [call EXCEPT !.stage = "started", !.field = field,
                          !.config = [rate_mode |-> call.rate_mode,
                                      bitrate_kbps |-> bitrate,
                                      crf_cq_value |-> crf_cq,
                                      codec |-> get_codec(call.codec_av1)]]
  /\ UNCHANGED <<mainVars, auxVars, probe_cache, tool_runs, fs, now, out_paths>>

\* the job of one file of the started batch
StartedJob(c, encoder) ==
  [smart |-> c.smart, vcodec |-> c.vcodec, codec |-> c.config.codec,
   encoder |-> encoder, crop |-> NoCrop, container |-> "MP4",
   rate_mode |-> c.config.rate_mode, bitrate_kbps |-> c.config.bitrate_kbps,
   crf_cq_value |-> c.config.crf_cq_value, audio_copy |-> TRUE,
   audio_codec |-> "AAC"]

\* lines 235-236 and 262-348: the worker chooses the encoder and builds the
\* command of a file
ApplyRunBuild ==
  /\ call.fn = "start"
  /\ call.stage = "started"
  /\ LET encoder == choose_encoder(call.config.codec, call.encoders) IN
       call' = [call EXCEPT !.stage = "built", !.encoder = encoder,
                            !.out = BuildCommand(StartedJob(call, encoder))]
  /\ UNCHANGED <<mainVars, auxVars, probe_cache, tool_runs, fs, now, out_paths>>

NextStart ==
  \/ ApplyStartConversion
  \/ ApplyRunBuild

SpecStart == InitStart /\ [][NextStart]_vars

\* ---- ConversionThread.run: output path (lines 268-275)
\* stems of input files that go to one output directory and container
Stems == {"a", "b"}

\* os.path.join(out_dir, f"{base}_converted.{ext}") has ts = None;
\* os.path.join(out_dir, f"{base}_converted_{ts}.{ext}") has the timestamp
Path(base, ts) == [base |-> base, ts |-> ts]

OutPaths == {Path(b, t) : b \in Stems, t \in {None} \cup 0..MaxClock}

\* lines 273-275
OutputPath(base) ==
  IF Path(base, None) \in fs THEN Path(base, now) ELSE Path(base, None)

InitPath ==
  /\ InitIdleApp
  /\ call = NoCall
  /\ probe_cache = <<>>
  /\ tool_runs = <<>>
  /\ fs \in SUBSET OutPaths
  /\ now \in 0..MaxClock
  /\ out_paths = <<>>
  /\ InitAuxIdle

\* a job reaches lines 268-275 and chooses its output path
ChooseOutput ==
  /\ Len(out_paths) < MaxJobs
  /\ \E base \in Stems :
       /\ call' = [fn |-> "output", path |-> OutputPath(base),
                   existed |-> OutputPath(base) \in fs, written |-> FALSE]
       /\ out_paths' = Append(out_paths, OutputPath(base))
  /\ UNCHANGED <<mainVars, auxVars, probe_cache, tool_runs, fs, now>>

\* the transcode process of the job creates (or overwrites) its output file;
\* a job that fails early creates none
WriteOutput ==
  /\ call.fn = "output"
  /\ ~call.written
  /\ fs' = fs \cup {call.path}
  /\ call' = [call EXCEPT !.written = TRUE]
  /\ UNCHANGED <<mainVars, auxVars, probe_cache, tool_runs, now, out_paths>>

\* int(time.time()) moves on by a second
Tick ==
  /\ now < MaxClock
  /\ now' = now + 1
  /\ UNCHANGED <<mainVars, auxVars, call, probe_cache, tool_runs, fs, out_paths>>

NextPath ==
  \/ ChooseOutput
  \/ WriteOutput
  \/ Tick

SpecPath == InitPath /\ [][NextPath]_vars

\* ---- ConversionThread.probe (lines 204-231)
ProbePaths == {"f1", "f2"}

\* the value None of the codec names
NoCodec == "None"

\* ProbeInfo(duration, vcodec, acodec, audio_bitrate_kbps), line 58
ProbeInfos == [duration : {0, 5}, vcodec : {"hevc", NoCodec}, acodec : {"aac", NoCodec},
               audio_bitrate_kbps : {None, 128}]

\* line 229: the ProbeInfo cached and returned when anything in the try raised
Sentinel == [duration |-> 0, vcodec |-> NoCodec, acodec |-> NoCodec,
             audio_bitrate_kbps |-> None]

\* variant: a failed probe is not cached
CacheAfter_skipfail(path, ok, info) ==
  IF ok THEN [q \in DOMAIN probe_cache \cup {path} |->
                IF q = path THEN info ELSE probe_cache[q]]
  ELSE probe_cache

\* lines 224 and 230: self._probe_cache[file] = pi on both ways out
CacheAfter(path, ok, info) ==
  [q \in DOMAIN probe_cache \cup {path} |->
     IF q = path THEN (IF ok THEN info ELSE Sentinel) ELSE probe_cache[q]]

InitProbe ==
  /\ InitIdleApp
  /\ call = [fn |-> "probe", n |-> 0, path |-> "", out |-> Sentinel,
             failed |-> FALSE, hit |-> FALSE]
  /\ probe_cache = <<>>
  /\ tool_runs = [q \in ProbePaths |-> 0]
  /\ fs = {}
  /\ now = 0
  /\ out_paths = <<>>
  /\ InitAuxIdle

\* one call of probe(path): a cache hit returns the cached ProbeInfo; else
\* ffmpeg.probe is run, and its result (ok, info) or the sentinel (the call or
\* the reading of its output raised) is cached and returned
Probe ==
  /\ call.n < MaxProbes
  /\ \E path \in ProbePaths :
       IF path \in DOMAIN probe_cache
         THEN /\ call' = [fn |-> "probe", n |-> call.n + 1, path |-> path,
                          out |-> probe_cache[path], failed |-> FALSE, hit |-> TRUE]
              /\ UNCHANGED <<probe_cache, tool_runs>>
         ELSE \E ok \in BOOLEAN, info \in ProbeInfos :
                /\ tool_runs' = [tool_runs EXCEPT ![path] = @ + 1]
                /\ probe_cache' = CacheAfter(path, ok, info)
                /\ call' = [fn |-> "probe", n |-> call.n + 1, path |-> path,
                            out |-> IF ok THEN info ELSE Sentinel,
                            failed |-> ~ok, hit |-> FALSE]
  /\ UNCHANGED <<mainVars, auxVars, fs, now, out_paths>>

NextProbe == Probe

SpecProbe == InitProbe /\ [][NextProbe]_vars

\* ---------------------------------------------------------- app.py: MainWindow
\* The list holds app.count files (rows 0..count-1).  process is the state of
\* transcoder.process: "none" (None), "idle" (a QProcess that is not running),
\* "running"; killed: kill() was called on the running process, which has not
\* been seen to exit yet.  Everything runs on the UI thread, one handler at a
\* time.  cancelled, spawned and ev observe the run: cancel() was invoked on a
\* running batch since the last start_batch; the last handler started a
\* process; the last handler.
AppProgress == {0, 50, 100}

\* app.py lines 291-326.  started: QProcess.start() managed to start ffmpeg.
process_next(a, started) ==
  IF a.current_index >= a.count
    THEN [a EXCEPT !.start_btn = TRUE, !.cancel_btn = FALSE, !.progress = 0]
    ELSE [a EXCEPT !.process = IF started THEN "running" ELSE "idle",
                   !.killed = FALSE,
                   !.log_file = TRUE,
                   !.spawned = started]

\* app.py lines 278-289, reached through the enabled Start button
start_batch(a, started) ==
  IF a.count = 0 THEN a
  ELSE process_next([a EXCEPT !.start_btn = FALSE, !.cancel_btn = TRUE,
                              !.current_index = 0, !.progress = 0,
                              !.cancelled = FALSE], started)

\* app.py lines 351-361
handle_finished(a, started) ==
  process_next([a EXCEPT !.process = "idle", !.killed = FALSE,
                         !.log_file = FALSE,
                         !.current_index = a.current_index + 1,
                         !.progress = 0], started)

\* app.py lines 363-374 and 170-172
cancel(a) ==
  [a EXCEPT !.killed = (a.killed \/ a.process = "running"),
            !.start_btn = TRUE, !.cancel_btn = FALSE, !.log_file = FALSE,
            !.progress = 0,
            !.cancelled = (a.cancelled \/ a.process = "running")]

\* app.py lines 376-385
clear_all(a) ==
  [cancel(a) EXCEPT !.count = 0, !.current_index = -1]

AppStep(a, h) ==
  /\ app' = [a EXCEPT !.ev = h]
  /\ UNCHANGED <<mainVars, pureVars, gui, media>>

AppStartBatch ==
  /\ app.start_btn
  /\ \E started \in BOOLEAN :
       AppStep(start_batch([app EXCEPT !.spawned = FALSE], started), "start_batch")

\* QProcess.finished of the running process, delivered by the event loop
AppHandleFinished ==
  /\ app.process = "running"
  /\ \E started \in BOOLEAN :
       AppStep(handle_finished([app EXCEPT !.spawned = FALSE], started),
               "handle_finished")

AppCancel ==
  /\ app.cancel_btn
  /\ AppStep(cancel([app EXCEPT !.spawned = FALSE]), "cancel")

\* the Clear button is always enabled
AppClearAll ==
  /\ app' = [clear_all([app EXCEPT !.spawned = FALSE]) EXCEPT !.ev = "clear_all"]
  /\ UNCHANGED <<mainVars, pureVars, gui, media>>

\* app.py lines 328-342: a frame= line of the running process
AppUpdateProgress ==
  /\ app.process = "running"
  /\ \E v \in AppProgress :
       AppStep([app EXCEPT !.progress = v, !.spawned = FALSE], "update_progress")

\* app.py lines 64-69: a file is dropped on the list
AppDropFile ==
  /\ app.count < MaxAppFiles
  /\ AppStep([app EXCEPT !.count = app.count + 1, !.spawned = FALSE], "dropEvent")

NextApp ==
  \/ AppStartBatch
  \/ AppHandleFinished
  \/ AppCancel
  \/ AppClearAll
  \/ AppUpdateProgress
  \/ AppDropFile

InitApp ==
  /\ InitIdleApp
  /\ call = NoCall
  /\ probe_cache = <<>>
  /\ tool_runs = <<>>
  /\ fs = {}
  /\ now = 0
  /\ out_paths = <<>>
  /\ app = AppIdle
  /\ gui = NoGui
  /\ media = <<>>

SpecApp == InitApp /\ [][NextApp]_vars

\* ------------------------------ VideoConverterApp: file list and crop fields
\* gui.files is self.files (a list of paths without repetition), gui.crop_settings
\* the dict self.crop_settings (a function on its keys), gui.selected the
\* selected items of file_list (at most one: QListWidget's default selection
\* mode), gui.start_edit / gui.end_edit the texts of the crop fields, a text
\* being the tuple of the integers between its colons (<<>> is the empty
\* text), gui.enabled whether the crop fields are enabled, gui.probes[p] the
\* number of ffmpeg.probe invocations for path p (2 stands for two or more).
Range(q) == {q[i] : i \in 1..Len(q)}

\* durations of the media files, in half seconds: unreadable, empty, one and a
\* half seconds, the longest
MediaDurs == {-1, 0, 3, 2 * MaxSecs}

\* texts the user types into a crop field
TimeTexts ==
  {<<>>, <<-1>>, <<0, 61>>, <<1>>, <<0, 1>>} \cup {<<0, 0, s>> : s \in 0..(MaxSecs + 1)}

\* lines 65-70
seconds_to_hhmmss(sec) ==
  LET s == Max(0, sec) IN <<s \div 3600, (s % 3600) \div 60, s % 60>>

\* lines 73-92: None for an empty text, a wrong number of parts, minutes or
\* seconds >= 60, or a negative part
parse_hhmmss(t) ==
  IF Len(t) = 0 \/ Len(t) > 3 THEN None
  ELSE LET hms == CASE Len(t) = 3 -> t
                    [] Len(t) = 2 -> <<0, t[1], t[2]>>
                    [] OTHER -> <<0, 0, t[1]>>
       IN IF hms[2] >= 60 \/ hms[3] >= 60 \/ Min(hms[1], Min(hms[2], hms[3])) < 0
            THEN None
            ELSE hms[1] * 3600 + hms[2] * 60 + hms[3]

\* one call of ffmpeg.probe(f) by the UI (lines 691, 723, 865)
ffmpeg_probe(g, f) == [g EXCEPT !.probes[f] = Min(2, @ + 1)]

RECURSIVE ProbeAll(_, _)
ProbeAll(g, n) ==
  IF n = 0 THEN g ELSE ffmpeg_probe(ProbeAll(g, n - 1), g.files[n])

\* lines 845-907: every file of the list is probed; no other state of the
\* list or of the crop fields is written
update_estimate(g) == IF g.files = <<>> THEN g ELSE ProbeAll(g, Len(g.files))

\* lines 709-736, and QLineEdit.setText, which emits textChanged (connected to
\* update_crop_settings at lines 498-499) when the text changes
RECURSIVE update_crop_settings(_)
RECURSIVE setStartText(_, _)
RECURSIVE setEndText(_, _)
setStartText(g, t) ==
  IF g.start_edit = t THEN g ELSE update_crop_settings([g EXCEPT !.start_edit = t])

setEndText(g, t) ==
  IF g.end_edit = t THEN g ELSE update_crop_settings([g EXCEPT !.end_edit = t])

\* variant: the end of the range is not cut to the duration
CutEnd_keep(end, d2) == end

\* lines 725-726: if end > duration: end = int(duration)
CutEnd(end, d2) == IF 2 * end > d2 THEN d2 \div 2 ELSE end

update_crop_settings(g) ==
  IF ~g.enabled \/ Cardinality(g.selected) # 1 THEN g
  ELSE LET file == CHOOSE f \in g.selected : TRUE
           start == parse_hhmmss(g.start_edit)
           end == parse_hhmmss(g.end_edit)
       IN IF start = None \/ end = None \/ start >= end THEN g
          ELSE LET g1 == ffmpeg_probe(g, file)
                   d2 == media[file]
                   end1 == CutEnd(end, d2)
                   g2 == IF 2 * end > d2 THEN setEndText(g1, seconds_to_hhmmss(end1))
                         ELSE g1
                   start1 == IF 2 * start > d2 THEN 0 ELSE start
                   g3 == IF 2 * start > d2 THEN setStartText(g2, ZeroText) ELSE g2
               IN IF d2 = -1 THEN g1
                  ELSE IF start1 >= end1 THEN g3
                  ELSE update_estimate(
                         [g3 EXCEPT !.crop_settings =
                            [p \in DOMAIN g3.crop_settings \cup {file} |->
                               IF p = file THEN <<start1, end1>>
                               ELSE g3.crop_settings[p]]])

\* lines 679-707
update_crop_inputs(g) ==
  IF Cardinality(g.selected) # 1
    THEN [g EXCEPT !.enabled = FALSE, !.start_edit = ZeroText, !.end_edit = ZeroText]
    ELSE LET file == CHOOSE f \in g.selected : TRUE IN
         IF file \notin Range(g.files) THEN g
         ELSE LET g1 == ffmpeg_probe(g, file)
                  d2 == media[file]
                  start_str == IF file \in DOMAIN g.crop_settings
                                 THEN seconds_to_hhmmss(g.crop_settings[file][1])
                                 ELSE ZeroText
                  end_str == IF file \in DOMAIN g.crop_settings
                               THEN seconds_to_hhmmss(g.crop_settings[file][2])
                               ELSE seconds_to_hhmmss(d2 \div 2)
              IN IF d2 = -1 THEN [g1 EXCEPT !.enabled = FALSE]
                 ELSE [setEndText(setStartText(g1, start_str), end_str)
                         EXCEPT !.enabled = TRUE]

\* lines 760-763: file_list.clear() and refill; the selection is lost.
\* signal: clear() emitted itemSelectionChanged for the selection it dropped.
update_file_list(g, signal) ==
  IF g.selected # {} /\ signal
    THEN update_crop_inputs([g EXCEPT !.selected = {}])
    ELSE [g EXCEPT !.selected = {}]

\* lines 739-752: add_dropped_files / select_files with the one path f
add_files(g, f, signal) ==
  update_estimate(update_file_list(
    [g EXCEPT !.files = IF f \in Range(g.files) THEN g.files ELSE Append(g.files, f)],
    signal))

\* lines 754-758
clear_list(g, signal) ==
  update_estimate(update_file_list(
    [g EXCEPT !.files = <<>>, !.crop_settings = <<>>], signal))

\* lines 634-641: "Remove Selected" of the context menu
remove_selected(g, signal) ==
  update_estimate(update_file_list(
    [g EXCEPT !.files = SelectSeq(g.files, LAMBDA p : p \notin g.selected),
              !.crop_settings = [p \in DOMAIN g.crop_settings \ g.selected |->
                                   g.crop_settings[p]]],
    signal))

GuiStep(g) ==
  /\ gui' = g
  /\ UNCHANGED <<mainVars, pureVars, app, media>>

GuiAddFiles ==
  \E f \in Paths, signal \in BOOLEAN :
    /\ gui' = add_files(gui, f, signal)
    /\ UNCHANGED <<mainVars, pureVars, app, media>>

\* the user selects one item or clears the selection (itemSelectionChanged,
\* line 497)
GuiSelect ==
  \E S \in SUBSET Range(gui.files) :
    /\ Cardinality(S) <= 1
    /\ S # gui.selected
    /\ GuiStep(update_crop_inputs([gui EXCEPT !.selected = S]))

\* the user edits an enabled crop field (textChanged, lines 498-499)
GuiEditStart ==
  /\ gui.enabled
  /\ \E t \in TimeTexts : GuiStep(setStartText(gui, t))

GuiEditEnd ==
  /\ gui.enabled
  /\ \E t \in TimeTexts : GuiStep(setEndText(gui, t))

GuiRemoveSelected ==
  \E signal \in BOOLEAN : GuiStep(remove_selected(gui, signal))

GuiClearList ==
  \E signal \in BOOLEAN : GuiStep(clear_list(gui, signal))

NextGui ==
  \/ GuiAddFiles
  \/ GuiSelect
  \/ GuiEditStart
  \/ GuiEditEnd
  \/ GuiRemoveSelected
  \/ GuiClearList

InitGui ==
  /\ InitIdleApp
  /\ call = NoCall
  /\ probe_cache = <<>>
  /\ tool_runs = <<>>
  /\ fs = {}
  /\ now = 0
  /\ out_paths = <<>>
  /\ app = NoApp
  /\ gui = GuiIdle
  /\ media \in [Paths -> MediaDurs]

SpecGui == InitGui /\ [][NextGui]_vars

\* ================================================================= claims
\* ---- seconds_to_hhmmss / parse_hhmmss on texts
\* A text is here the sequence of its characters.
DigitVal ==
  ("0" :> 0) @@ ("1" :> 1) @@ ("2" :> 2) @@ ("3" :> 3) @@ ("4" :> 4)
  @@ ("5" :> 5) @@ ("6" :> 6) @@ ("7" :> 7) @@ ("8" :> 8) @@ ("9" :> 9)

\* format spec d of a non-negative int: its decimal digits
RECURSIVE format_d(_)
format_d(n) ==
  IF n < 10 THEN <<Digits[n + 1]>>
  ELSE Append(format_d(n \div 10), Digits[(n % 10) + 1])

\* format spec 02d: at least two digits, zero-padded
format_02d(n) == IF n < 10 THEN <<"0">> \o format_d(n) ELSE format_d(n)

\* lines 65-70, the text as characters
seconds_to_hhmmss_str(sec) ==
  LET s == Max(0, sec)
  IN format_02d(s \div 3600) \o <<":">> \o format_02d((s % 3600) \div 60)
       \o <<":">> \o format_02d(s % 60)

\* str.strip() for the blank
RECURSIVE strip(_)
strip(t) ==
  IF t = <<>> THEN t
  ELSE IF Head(t) = " " THEN strip(Tail(t))
  ELSE IF t[Len(t)] = " " THEN strip(SubSeq(t, 1, Len(t) - 1))
  ELSE t

\* str.split(":")
RECURSIVE split(_)
split(t) ==
  IF \A i \in 1..Len(t) : t[i] # ":" THEN <<t>>
  ELSE LET k == CHOOSE i \in 1..Len(t) :
                  t[i] = ":" /\ \A j \in 1..(i - 1) : t[j] # ":"
       IN <<SubSeq(t, 1, k - 1)>> \o split(SubSeq(t, k + 1, Len(t)))

\* value of a sequence of digits
RECURSIVE digits_value(_)
digits_value(ds) ==
  IF ds = <<>> THEN 0
  ELSE 10 * digits_value(SubSeq(ds, 1, Len(ds) - 1)) + DigitVal[ds[Len(ds)]]

\* int(p) of a text: blanks around, an optional sign, at least one digit;
\* ok is FALSE where int raises ValueError
int_str(p) ==
  LET q == strip(p)
      signed == q # <<>> /\ Head(q) \in {"-", "+"}
      body == IF signed THEN Tail(q) ELSE q
  IN IF body = <<>> \/ \E i \in 1..Len(body) : body[i] \notin DOMAIN DigitVal
       THEN [ok |-> FALSE, v |-> 0]
       ELSE [ok |-> TRUE,
             v |-> IF Head(q) = "-" THEN 0 - digits_value(body) ELSE digits_value(body)]

\* variant: 60 is accepted as minutes or seconds
hhmmss_in_range_le(h, m, s) == ~(m > 60 \/ s > 60 \/ Min(h, Min(m, s)) < 0)

\* line 88: not (m >= 60 or s >= 60 or min(h, m, s) < 0)
hhmmss_in_range(h, m, s) == ~(m >= 60 \/ s >= 60 \/ Min(h, Min(m, s)) < 0)

\* lines 73-92; an exception inside the try gives None (lines 91-92)
parse_hhmmss_str(time_str) ==
  IF time_str = <<>> THEN None
  ELSE LET parts == split(strip(time_str))
           n == Len(parts)
           ints == [i \in 1..n |-> int_str(strip(parts[i]))]
       IN IF n > 3 THEN None
          ELSE IF \E i \in 1..n : ~ints[i].ok THEN None
          ELSE LET h == IF n = 3 THEN ints[1].v ELSE 0
                   m == IF n = 3 THEN ints[2].v ELSE IF n = 2 THEN ints[1].v ELSE 0
                   s == ints[n].v
               IN IF hhmmss_in_range(h, m, s) THEN h * 3600 + m * 60 + s ELSE None

\* characters of the texts given to parse_hhmmss
TimeChars == {"0", "5", "6", ":", "-", " ", "a"}

RECURSIVE TextsUpTo(_)
TextsUpTo(n) ==
  IF n = 0 THEN {<<>>}
  ELSE LET shorter == TextsUpTo(n - 1)
       IN shorter \cup {Append(t, c) : t \in {u \in shorter : Len(u) = n - 1},
                                        c \in TimeChars}

\* numbers of seconds given to seconds_to_hhmmss: the first two minutes, and
\* values around an hour, a day and a hundred hours
RoundTripSecs ==
  0..121 \cup {3599, 3600, 3601, 3661, 7199, 86399, 86400, 359999, 360000, 360001}

InitTime ==
  /\ InitIdleApp
  /\ \/ call \in [fn : {"round_trip"}, n : RoundTripSecs, done : {FALSE},
                   text : {<<>>}, out : {None}]
     \/ call \in [fn : {"parse_hhmmss"}, text : TextsUpTo(MaxTextLen),
                   done : {FALSE}, out : {None}]
  /\ probe_cache = <<>>
  /\ tool_runs = <<>>
  /\ fs = {}
  /\ now = 0
  /\ out_paths = <<>>
  /\ InitAuxIdle

\* parse_hhmmss(seconds_to_hhmmss(n))
ApplyRoundTrip ==
  /\ call.fn = "round_trip"
  /\ ~call.done
  /\ call' = [call EXCEPT !.done = TRUE,
                          !.text = seconds_to_hhmmss_str(call.n),
                          !.out = parse_hhmmss_str(seconds_to_hhmmss_str(call.n))]
  /\ UNCHANGED <<mainVars, auxVars, probe_cache, tool_runs, fs, now, out_paths>>

ApplyParse ==
  /\ call.fn = "parse_hhmmss"
  /\ ~call.done
  /\ call' = [call EXCEPT !.done = TRUE, !.out = parse_hhmmss_str(call.text)]
  /\ UNCHANGED <<mainVars, auxVars, probe_cache, tool_runs, fs, now, out_paths>>

NextTime ==
  \/ ApplyRoundTrip
  \/ ApplyParse

SpecTime == InitTime /\ [][NextTime]_vars

\* ---- Grok-4-Converter.py: ConversionThread.run, encoder and preset
\* encoder names the output of `ffmpeg -encoders` can list
GrokEncoderNames == {"h264_nvenc", "hevc_nvenc", "av1_nvenc", "libx265", "libsvtav1"}

\* 'nvenc' in name, for the names above
contains_nvenc(name) == name \in {"h264_nvenc", "hevc_nvenc", "av1_nvenc"}

\* lines 95-100: 'nvenc' in output.lower(); False when the enumeration raises
check_nvenc(enum_ok, encoders) ==
  enum_ok /\ \E name \in encoders : contains_nvenc(name)

\* lines 54-57
grok_encoder(codec, has_nvenc) ==
  IF codec = "H.265" THEN (IF has_nvenc THEN "hevc_nvenc" ELSE "libx265")
  ELSE (IF has_nvenc THEN "av1_nvenc" ELSE "libsvtav1")

\* lines 105-115
grok_nvenc_map ==
  ("ultrafast" :> "fast") @@ ("superfast" :> "fast") @@ ("veryfast" :> "fast")
  @@ ("faster" :> "medium") @@ ("fast" :> "medium") @@ ("medium" :> "medium")
  @@ ("slow" :> "slow") @@ ("slower" :> "slow") @@ ("veryslow" :> "slow")

\* lines 102-116
map_preset_for_encoder(preset, encoder, has_nvenc) ==
  IF ~has_nvenc THEN preset
  ELSE IF preset \in DOMAIN grok_nvenc_map THEN grok_nvenc_map[preset] ELSE "medium"

\* the thread's codec and preset, and what `ffmpeg -encoders` will answer
InitGrok ==
  /\ InitIdleApp
  /\ call \in [fn : {"grok_run"}, codec : Codecs,
               preset : {presets[i] : i \in 1..Len(presets)},
               enum_ok : BOOLEAN, encoders : SUBSET GrokEncoderNames,
               stage : {"start"}, has_nvenc : {FALSE}, encoder : {""},
               mapped_preset : {""}]
  /\ probe_cache = <<>>
  /\ tool_runs = <<>>
  /\ fs = {}
  /\ now = 0
  /\ out_paths = <<>>
  /\ InitAuxIdle

\* line 35: has_nvenc = self.check_nvenc()
GrokCheckNvenc ==
  /\ call.fn = "grok_run"
  /\ call.stage = "start"
  /\ call' = [call EXCEPT !.stage = "checked",
                          !.has_nvenc = check_nvenc(call.enum_ok, call.encoders)]
  /\ UNCHANGED <<mainVars, auxVars, probe_cache, tool_runs, fs, now, out_paths>>

\* lines 53-59, for the first file of the list
GrokSelect ==
  /\ call.fn = "grok_run"
  /\ call.stage = "checked"
  /\ LET encoder == grok_encoder(call.codec, call.has_nvenc)
     IN call' = [call EXCEPT !.stage = "selected",
                             !.encoder = encoder,
                             !.mapped_preset =
                               map_preset_for_encoder(call.preset, encoder, call.has_nvenc)]
  /\ UNCHANGED <<mainVars, auxVars, probe_cache, tool_runs, fs, now, out_paths>>

NextGrok ==
  \/ GrokCheckNvenc
  \/ GrokSelect

SpecGrok == InitGrok /\ [][NextGrok]_vars

\* ------------------------------------ a batch started while the list is edited
\* The list and crop handlers above go on running on the UI thread while a
\* ConversionThread works on what start_conversion handed to it.  call is the
\* thread: call.files / call.crop_settings the objects made at lines 948-949,
\* call.stage its position in run(), call.durations / call.total_duration the
\* values of lines 241-252, call.idx the loop index, call.processed the files
\* the loop of line 255 has taken so far.

\* variant: the thread is given the list object of the window
self_files_shared(c, g) == g.files

\* line 948: files=self.files.copy(): a list of its own, of immutable strings
self_files(c, g) == c.files

\* line 949: crop_settings=self.crop_settings.copy(): a dict of its own, its
\* values immutable tuples
self_crop_settings(c, g) == c.crop_settings

\* lines 243-251: crop length for a cropped file, else int(p.duration or 0);
\* probe() gives duration 0.0 when ffprobe fails (line 229)
ThreadTargetDur(f, crops) ==
  IF f \in DOMAIN crops THEN Max(0, crops[f][2] - crops[f][1])
  ELSE IF media[f] = -1 THEN 0 ELSE media[f] \div 2

\* lines 241-252 over a list and a dict
ThreadDurations(fl, crops) == [i \in 1..Len(fl) |-> ThreadTargetDur(fl[i], crops)]

\* the batch under observation has not ended
FrameOpen == IF call.fn = "none" THEN TRUE ELSE call.stage # "done"

\* lines 926-966 with usable rate fields: the thread is constructed and started
FrameStart ==
  /\ call.fn = "none"
  /\ gui.files # <<>>
  /\ call' = [fn |-> "thread", files |-> gui.files,
              crop_settings |-> gui.crop_settings, stage |-> "start",
              durations |-> <<>>, total_duration |-> 1, idx |-> 0,
              processed |-> <<>>]
  /\ UNCHANGED <<mainVars, probe_cache, tool_runs, fs, now, out_paths, auxVars>>

\* lines 241-252
FrameDurations ==
  /\ call.fn = "thread"
  /\ call.stage = "start"
  /\ LET d == ThreadDurations(self_files(call, gui), self_crop_settings(call, gui))
     IN call' = [call EXCEPT !.stage = "loop", !.durations = d,
                             !.total_duration = TotalDuration(SumTo(d, Len(d)))]
  /\ UNCHANGED <<mainVars, probe_cache, tool_runs, fs, now, out_paths, auxVars>>

\* line 255: for idx, file in enumerate(self.files, start=1), one iteration
\* (lines 256-386) or the end of the list
FrameProcess ==
  /\ call.fn = "thread"
  /\ call.stage = "loop"
  /\ LET fl == self_files(call, gui)
     IN call' = IF call.idx < Len(fl)
                  THEN [call EXCEPT !.idx = @ + 1,
                                    !.processed = Append(@, fl[call.idx + 1])]
                  ELSE [call EXCEPT !.stage = "done"]
  /\ UNCHANGED <<mainVars, probe_cache, tool_runs, fs, now, out_paths, auxVars>>

FrameAddFiles ==
  /\ FrameOpen
  /\ GuiAddFiles

FrameSelect ==
  /\ FrameOpen
  /\ GuiSelect

\* texts typed into a crop field here: one second, the longest duration
FrameTexts == {<<0, 0, 1>>, <<0, 0, MaxSecs>>}

FrameEditStart ==
  /\ FrameOpen
  /\ gui.enabled
  /\ \E t \in FrameTexts : GuiStep(setStartText(gui, t))

FrameEditEnd ==
  /\ FrameOpen
  /\ gui.enabled
  /\ \E t \in FrameTexts : GuiStep(setEndText(gui, t))

FrameRemoveSelected ==
  /\ FrameOpen
  /\ GuiRemoveSelected

FrameClearList ==
  /\ FrameOpen
  /\ GuiClearList

NextFrame ==
  \/ FrameStart
  \/ FrameDurations
  \/ FrameProcess
  \/ FrameAddFiles
  \/ FrameSelect
  \/ FrameEditStart
  \/ FrameEditEnd
  \/ FrameRemoveSelected
  \/ FrameClearList

\* the window after both paths were listed, probed and the list cleared again;
\* both files are readable
InitFrame ==
  /\ InitIdleApp
  /\ call = NoCall
  /\ probe_cache = <<>>
  /\ tool_runs = <<>>
  /\ fs = {}
  /\ now = 0
  /\ out_paths = <<>>
  /\ app = NoApp
  /\ gui = [GuiIdle EXCEPT !.probes = [p \in Paths |-> 2]]
  /\ media \in [Paths -> {3, 2 * MaxSecs}]

SpecFrame == InitFrame /\ [][NextFrame]_vars

\* the values emitted on progress_updated
ProgressKinds == {"progress", "completed"}

\* C1 (as stated): the values emitted on progress_updated by a batch are
\* non-decreasing and lie in 0..100, whatever mix of files completes, is
\* skipped or fails part-way through.
C1_ProgressMonotone ==
  ev.kind \in ProgressKinds => (ev.value \in 0..100 /\ ev.value >= ev.prev)

\* C2 (as stated): in the 100 s / 50 s batch the completion of the first file
\* emits exactly 67, before the process of the second file is started.
C2_FirstCompletionIs67 ==
  (ev.kind = "completed" /\ ev.file = 1) => (ev.value = 67 /\ proc[2] = "none")

\* C2 (amended): in the 100 s / 50 s batch total_duration is 150; the
\* completion of the first file emits exactly 66 (int(100/150*100)), before the
\* process of the second file is started; when both files completed, the last
\* value emitted by the batch is 100.
C2_Scenario ==
  /\ pc \in InFile \cup {"loop_top", "emit_finished"} => total_duration = 150
  /\ (ev.kind = "completed" /\ ev.file = 1) => (ev.value = 66 /\ proc[2] = "none")
  /\ (ev.kind = "completed" /\ done_duration = 150) => ev.value = 100
  /\ (pc = "emit_finished" /\ done_duration = 150) => emitted = 100

\* both files of the scenario completed cleanly
C2_Witness ==
  ev.kind = "completed" /\ ev.file = 2 /\ done_duration = 150 /\ ~raised

\* the k-th file of an equal-duration batch completes after k-1 clean completions
EqualCompletion ==
  ev.kind = "completed" /\ done_duration = ev.file * durations[1]

\* C3 (as stated): with N files of equal positive duration completing cleanly
\* in order, the value emitted at the k-th completion is at least 100*k/N.
C3_AtLeastShare ==
  EqualCompletion => t_files * ev.value >= 100 * ev.file

\* C3 (amended): with N files of equal positive duration completing cleanly in
\* order, the value emitted at the k-th completion is at most 100*k/N and at
\* least 100*k/N - 1 (the value is truncated to an integer).
C3_EqualDurations ==
  EqualCompletion =>
    /\ t_files * ev.value <= 100 * ev.file
    /\ t_files * ev.value >= 100 * ev.file - t_files

\* the first of three equal files completes: 33, below 100/3
C3_Witness ==
  EqualCompletion /\ t_files = 3 /\ ev.file = 1 /\ ev.value = 33

\* C4 (as stated): once stop() has set the cancellation flag, no transcode
\* process is started, under every interleaving of stop() with the loop-top
\* check, the command build and the spawn.
C4_NoSpawnAfterStop ==
  ev.kind = "spawn" => ~stopped

\* C5 (as stated): once stop() has set the cancellation flag, the worker emits
\* no further progress value for the file, no Completed log and adds nothing to
\* done_duration, under every interleaving of stop() with the progress loop.
C5_NoEmissionAfterStop ==
  ev.kind \in ProgressKinds => ~stopped

\* inside _terminate_process, past the poll that found the process alive
Terminating(i) ==
  (ui_pc = "t_term" \/ pc = "wt_term") /\ process = i /\ proc[i] = "alive"

\* C6: _terminate_process sends terminate first; kill is sent only to a
\* process that was sent terminate and was still alive when the 3 s wait
\* expired; the process is eventually not alive, and the method returns.
C6_TerminateThenKill ==
  /\ [](kill_sent \subseteq (term_sent \cap grace_expired))
  /\ \A i \in FileIds : Terminating(i) ~> (proc[i] # "alive")
  /\ (ui_pc \in {"t_poll", "t_term", "t_wait", "t_kill"}) ~> (ui_pc = "join")
  /\ (pc \in {"wt_poll", "wt_term", "wt_wait", "wt_kill"}) ~> (pc = "post_check")

\* a process outlived the grace period and was sent kill
C6_Witness ==
  kill_sent # {} /\ kill_sent \subseteq grace_expired

C8_FailureDoesNotAbort ==
  /\ ev.kind \in {"error", "not_found"} => (pc = "loop_top" /\ idx = ev.file + 1)
  /\ (pc = "emit_finished" /\ ~stopped) => idx = t_files + 1
  /\ pc \in InFile => idx \in 1..t_files

\* a file completed after an earlier file of the batch raised
C8_Witness ==
  raised /\ ev.kind = "completed" /\ ~stopped

\* C9: start_conversion called with an empty file list, or with the rate field
\* empty or not an integer, creates no thread, touches no process and leaves
\* the controller idle: conversion_thread unset, Start enabled, Cancel disabled.
C9_RejectedStart ==
  [][ui_ev' \in {"start_nofiles", "start_norate"} =>
       (UNCHANGED threadVars /\ ~conversion_thread' /\ start_btn' /\ ~cancel_btn')]_vars

\* a start with files selected and an unusable rate field was rejected
C9_Witness ==
  ui_ev = "start_norate" /\ files > 0 /\ ~conversion_thread /\ start_btn

\* C10 (as stated): at most one worker is executing run() at any time.
C10_OneWorker ==
  lingering + (IF isRunning THEN 1 ELSE 0) <= 1

\* a getter was applied to a field that holds the integer v
GetterApplied(f) == call.fn = f /\ call.done /\ call.txt \in DOMAIN IntOf

\* C11: for every integer input v, get_bitrate returns v clamped to
\* [50, 200000] and get_quality_value returns v clamped to [0, 51] for H.265
\* and [0, 63] for AV1; a value in bounds is returned unchanged; quality 100
\* for H.265 gives 51 and bitrate 10 gives 50.
C11_GettersClamp ==
  /\ GetterApplied("get_bitrate") =>
       LET v == IntOf[call.txt] IN
         /\ call.out \in 50..200000
         /\ call.out = (IF v < 50 THEN 50 ELSE IF v > 200000 THEN 200000 ELSE v)
         /\ (call.txt = "10" => call.out = 50)
  /\ GetterApplied("get_quality_value") =>
       LET v == IntOf[call.txt]
           hi == IF call.codec_av1 THEN 63 ELSE 51
       IN /\ call.out \in 0..hi
          /\ call.out = (IF v < 0 THEN 0 ELSE IF v > hi THEN hi ELSE v)
          /\ (call.txt = "100" /\ ~call.codec_av1 => call.out = 51)

\* quality 100 with H.265 selected resolved to 51
C11_Witness ==
  /\ GetterApplied("get_quality_value")
  /\ call.txt = "100" /\ ~call.codec_av1 /\ call.out = 51

\* position of a preset among the nine levels (1 = fastest), 0 if unknown
Rank(q) == IF \E i \in 1..Len(presets) : presets[i] = q
             THEN CHOOSE i \in 1..Len(presets) : presets[i] = q ELSE 0

\* the number in an NVENC token p1..p7 and in a libsvtav1 token
NvencLevel == ("p1" :> 1) @@ ("p2" :> 2) @@ ("p3" :> 3) @@ ("p4" :> 4)
              @@ ("p5" :> 5) @@ ("p6" :> 6) @@ ("p7" :> 7)

SvtNumber == ("13" :> 13) @@ ("12" :> 12) @@ ("10" :> 10) @@ ("9" :> 9)
             @@ ("8" :> 8) @@ ("6" :> 6) @@ ("4" :> 4) @@ ("3" :> 3) @@ ("2" :> 2)

\* map_preset was applied to a faster and a slower one of the nine levels
FasterThenSlower ==
  /\ call.fn = "map_preset" /\ call.done
  /\ Rank(call.ui_preset) > 0
  /\ Rank(call.ui_preset) < Rank(call.ui_preset2)

\* C15: over the nine ordered presets, for hevc_nvenc / av1_nvenc a faster
\* preset never maps to a slower token (p1 fastest .. p7 slowest) and the nine
\* levels give fewer than nine tokens; for libsvtav1 a faster preset maps to a
\* strictly higher number; every other encoder gets the preset unchanged.
C15_PresetMonotone ==
  FasterThenSlower =>
    /\ call.encoder \in {"hevc_nvenc", "av1_nvenc"} =>
         /\ NvencLevel[call.out] <= NvencLevel[call.out2]
         /\ Cardinality({map_preset(call.encoder, presets[i]) : i \in 1..9}) < 9
    /\ call.encoder = "libsvtav1" => SvtNumber[call.out] > SvtNumber[call.out2]
    /\ call.encoder \in {"libx265", "libaom-av1"} =>
         (call.out = call.ui_preset /\ call.out2 = call.ui_preset2)

\* slow and slower both map to p7 for an NVENC encoder
C15_Witness ==
  /\ FasterThenSlower /\ call.encoder = "hevc_nvenc"
  /\ call.ui_preset = "slow" /\ call.ui_preset2 = "slower"
  /\ call.out = "p7" /\ call.out2 = "p7"

\* C16 (as stated): for every encoder, a preset string that is not one of the
\* nine levels is mapped without error to the token the encoder maps medium to.
C16_UnknownIsMedium ==
  (/\ call.fn = "map_preset" /\ call.done
   /\ Rank(call.ui_preset) = 0 /\ call.ui_preset2 = "medium")
    => call.out = call.out2

\* C17: choose_encoder returns, for H.265, hevc_nvenc if available and else
\* libx265; for AV1 the first available of av1_nvenc, libsvtav1 and else
\* libaom-av1; the result is of the requested family, is available or is the
\* family's last fallback, and is that fallback for the empty set.
C17_ChooseEncoder ==
  (call.fn = "choose_encoder" /\ call.done) =>
    LET av == call.encoders
        hevc == call.codec = "H.265"
    IN /\ hevc => call.out = (IF "hevc_nvenc" \in av THEN "hevc_nvenc" ELSE "libx265")
       /\ ~hevc => call.out = (IF "av1_nvenc" \in av THEN "av1_nvenc"
                               ELSE IF "libsvtav1" \in av THEN "libsvtav1"
                               ELSE "libaom-av1")
       /\ call.out \in (IF hevc THEN {"hevc_nvenc", "libx265"}
                        ELSE {"av1_nvenc", "libsvtav1", "libaom-av1"})
       /\ call.out \in av \cup {IF hevc THEN "libx265" ELSE "libaom-av1"}
       /\ av = {} => call.out = (IF hevc THEN "libx265" ELSE "libaom-av1")

\* AV1 without av1_nvenc but with libsvtav1 chose libsvtav1
C17_Witness ==
  /\ call.fn = "choose_encoder" /\ call.done /\ call.codec = "AV1"
  /\ "av1_nvenc" \notin call.encoders /\ "libsvtav1" \in call.encoders
  /\ call.out = "libsvtav1"

\* the command holds flag a directly followed by b
HasPair(cmd, a, b) == \E i \in 1..(Len(cmd) - 1) : cmd[i] = a /\ cmd[i + 1] = b

Tokens(cmd) == {cmd[i] : i \in 1..Len(cmd)}

\* the flags a pure copy must not carry
EncodeFlags == {"-c:v", "-preset", "-b:v", "-maxrate", "-bufsize", "-rc:v",
                "-cq:v", "-crf", "-c:a", "-b:a"}

\* the probed codec is of the target codec family, in any spelling
SameFamily(j) ==
  \/ j.codec = "H.265" /\ j.vcodec \in {"hevc", "HEVC", "Hevc"}
  \/ j.codec = "AV1" /\ j.vcodec \in {"av1", "AV1"}

\* C12: with smart copy enabled and the probed codec of the target family
\* (case-insensitively), with or without crop, the command has -c copy and
\* no encode, rate, preset or audio flag; with smart copy disabled or another
\* codec it has -c:v <encoder> and no -c copy.
C12_StreamCopy ==
  (call.fn = "build" /\ call.done /\ ~call.out.raised) =>
    LET j == call.job
        cmd == call.out.cmd
    IN IF j.smart /\ SameFamily(j)
         THEN HasPair(cmd, "-c", "copy") /\ Tokens(cmd) \cap EncodeFlags = {}
         ELSE HasPair(cmd, "-c:v", j.encoder) /\ ~HasPair(cmd, "-c", "copy")

\* a cropped HEVC source spelled in upper case was stream-copied
C12_Witness ==
  /\ call.fn = "build" /\ call.done /\ call.job.smart
  /\ call.job.vcodec = "HEVC" /\ call.job.codec = "H.265"
  /\ call.job.crop # NoCrop
  /\ HasPair(call.out.cmd, "-c", "copy")

\* C13 (as stated): the output path chosen for a job names no file that
\* exists at command-build time; when <stem>_converted.<ext> exists the chosen
\* path carries the timestamp, and that path does not exist either.
C13_ChosenPathIsFree ==
  call.fn = "output" => ~call.existed

\* C14 (as stated): two jobs that compute the same base output path (the
\* output of the first being on disk when the second is built) choose distinct
\* paths, and the second carries a timestamp suffix.
C14_DistinctPaths ==
  \A i, j \in 1..Len(out_paths) :
    (i < j /\ out_paths[i].base = out_paths[j].base /\ out_paths[i] \in fs) =>
      (out_paths[i] # out_paths[j] /\ out_paths[j].ts # None)

\* C18: for every path the probing tool is run at most once, also when the
\* first run failed; every call returns the ProbeInfo cached for the path,
\* which never changes once set, so later calls return what the first did; a
\* failed probe returns the sentinel ProbeInfo(0, None, None, None).
C18_ProbeIdempotent ==
  [][/\ \A q \in ProbePaths : tool_runs'[q] <= 1
     /\ \A q \in DOMAIN probe_cache :
          q \in DOMAIN probe_cache' /\ probe_cache'[q] = probe_cache[q]
     /\ call'.n > 0 =>
          /\ call'.path \in DOMAIN probe_cache'
          /\ call'.out = probe_cache'[call'.path]
          /\ (call'.failed => call'.out = Sentinel)]_vars

\* a path whose first probe failed was probed again and answered from the cache
C18_Witness ==
  /\ call.fn = "probe" /\ call.hit /\ call.out = Sentinel
  /\ tool_runs[call.path] = 1

\* the sum of the per-file target durations of the running batch
TargetSum ==
  SumTo([i \in 1..t_files |->
           IF t_crop[i] # NoCrop THEN t_crop[i][2] - t_crop[i][1] ELSE duration[i]],
        t_files)

\* C19: total_duration is computed before the first file as the sum of the
\* target durations (crop length or probed duration), floored to 1 when the sum
\* is 0; it is >= 1, keeps its value in every later state of the run, and is the
\* denominator of every emitted percentage.
C19_TotalDuration ==
  [][/\ pc' \notin {"none", "start"} =>
          /\ total_duration' >= 1
          /\ total_duration' = (IF TargetSum' = 0 THEN 1 ELSE TargetSum')
     /\ (pc \notin {"none", "start"} /\ pc' # "start") =>
          total_duration' = total_duration
     /\ ev'.kind = "completed" =>
          ev'.value = Min(100, (100 * done_duration') \div total_duration')
     /\ ev'.kind = "progress" =>
          ev'.value = Min(100, (100 * done_duration' + pct' * durations'[ev'.file])
                                 \div total_duration')]_vars

\* a batch whose target durations sum to 0 emits a percentage over the floor 1
C19_Witness ==
  ev.kind = "progress" /\ TargetSum = 0 /\ total_duration = 1

\* C20 (as stated): a file that hits a recoverable error (missing input, probe
\* failure, exception in its transcode) gets exactly one error log: the file
\* whose missing-file or exception log is emitted has no probe-failure log.
C20_OneErrorLog ==
  ev.kind \in {"not_found", "error"} => ~ProbeFailureLogged(ev.file)
\* C21 (as stated): in app.py, once cancel() has been invoked during a running
\* batch, no handler starts an external process until the next start_batch,
\* also not handle_finished for the killed process.
C21_NoSpawnAfterCancel == ~(app.cancelled /\ app.spawned)

\* C22 (as stated): over any sequence of selections, crop edits and estimate
\* recomputations in the UI, ffmpeg.probe is invoked at most once per path.
C22_ProbeOncePerPath == \A p \in Paths : gui.probes[p] <= 1

\* C30: after any sequence of additions, removals, clears, selections and
\* crop-field edits, every crop_settings entry (start, end) has
\* 0 <= start < end <= the duration of its file, and every key is in the list.
C30_CropsValid ==
  \A f \in DOMAIN gui.crop_settings :
    /\ f \in Range(gui.files)
    /\ media[f] # -1
    /\ 0 <= gui.crop_settings[f][1]
    /\ gui.crop_settings[f][1] < gui.crop_settings[f][2]
    /\ 2 * gui.crop_settings[f][2] <= media[f]

\* an end typed beyond a duration of 1.5 s was cut to 1 and stored, while the
\* other listed file keeps its own range
C30_Witness ==
  /\ Len(gui.files) = 2
  /\ DOMAIN gui.crop_settings = Paths
  /\ \E f \in gui.selected :
       /\ media[f] = 3
       /\ gui.crop_settings[f] = <<0, 1>>
       /\ gui.end_edit = <<0, 0, 1>>

\* C23 (as stated): no two consecutive emissions on progress_updated of a
\* batch carry the same value, also across the completion emission of a file
\* and the first sample of the next.
C23_NoRepeatedValue == ev.kind \in ProgressKinds => ev.value # ev.prev

\* positions of run() inside the loop over the files
InLoop == InFile \cup {"loop_top"}

\* C24: the step that ends a file's transcode with the flag found unset adds
\* exactly the file's target duration to done_duration and emits an overall
\* value that is >= every value emitted while the file was running (none of
\* them exceeds the value of the completed file, and the last one is not
\* above it); no other step of the loop (skip of a missing file, exception,
\* cancellation) changes done_duration, and done_duration <= total_duration.
C24_CompletionAccounting ==
  [][/\ (pc = "post_emit" /\ pc' # "post_emit") =>
          /\ ev'.kind = "completed" /\ ev'.file = idx
          /\ done_duration' = done_duration + durations[idx]
          /\ ev'.value = DonePct(done_duration', total_duration)
          /\ ev'.value >= last_pct
     /\ ev'.kind = "progress" =>
          /\ ev'.file = idx
          /\ ev'.value <= DonePct(done_duration + durations[idx], total_duration)
     /\ (pc \in InLoop /\ pc' \in InLoop /\ ev'.kind # "completed") =>
          done_duration' = done_duration
     /\ done_duration' <= total_duration']_vars

\* the second of two files of one second each completes after its last sample
\* was 50 %: 75 is followed by 100
C24_Witness ==
  ev.kind = "completed" /\ ev.file = 2 /\ ev.prev = 75 /\ ev.value = 100

\* events of run() that belong to one file
FileKinds == {"progress", "completed", "converting", "spawn", "not_found", "error"}

\* what ends the handling of a file
EndKinds == {"completed", "not_found", "error"}

\* C25: every event of a file is emitted while the loop is at that file, and
\* the loop leaves a file only for the next one, in the step that emits the
\* file's completion, skip or error event, or after a cancellation, which ends
\* the batch: no event of file i+1 precedes the completion handling of file i.
C25_NoInterleaving ==
  [][/\ ev'.kind \in FileKinds => ev'.file = idx
     /\ (pc \in InLoop /\ pc' \in InLoop /\ idx' # idx) =>
          /\ idx' = idx + 1
          /\ \/ ev'.kind \in EndKinds /\ ev'.file = idx
             \/ ~is_running /\ ev'.kind = "none"
     /\ (pc = "loop_top" /\ ~is_running /\ pc' # pc) => pc' \in {"emit_finished", "start"}]_vars

\* the second file reports progress after the first one completed
C25_Witness == ev.kind = "progress" /\ ev.file = 2 /\ done_duration > 0

\* C26: the step that finds the file at the current index missing emits the
\* 'File not found' warning, goes back to the top of the loop at the next index
\* without building a command or spawning a process, and leaves done_duration
\* unchanged; after the last index the batch ends.
C26_MissingFileSkipped ==
  [][ev'.kind = "not_found" =>
       /\ pc = "loop_top" /\ pc' = "loop_top"
       /\ ev'.file = idx /\ idx' = idx + 1
       /\ done_duration' = done_duration
       /\ proc' = proc /\ proc[idx] = "none"
       /\ process' = process]_vars

\* the last file of a batch of two is skipped as missing
C26_Witness ==
  ev.kind = "not_found" /\ ev.file = 2 /\ t_files = 2 /\ idx = 3 /\ pc = "loop_top"

\* the command of a started batch was built and re-encodes the video
Reencoded(mode) ==
  /\ call.fn = "start" /\ call.stage = "built"
  /\ call.config.rate_mode = mode
  /\ ~call.out.raised
  /\ ~HasPair(call.out.cmd, "-c", "copy")

NvencEncoders == {"hevc_nvenc", "av1_nvenc"}

\* C27: a re-encode command built in bitrate mode for a batch started through
\* start_conversion has a bitrate B in [50, 200000]; NVENC gets -rc:v vbr,
\* -b:v Bk, -maxrate Bk, -bufsize (2B)k; a software encoder gets -b:v Bk and
\* none of -rc:v, -maxrate, -bufsize; neither gets -crf or -cq:v.
C27_BitrateFlags ==
  Reencoded("bitrate") =>
    LET B == call.config.bitrate_kbps
        cmd == call.out.cmd
    IN /\ B >= 50 /\ B <= 200000
       /\ HasPair(cmd, "-b:v", str(B) \o "k")
       /\ IF call.encoder \in NvencEncoders
            THEN /\ HasPair(cmd, "-rc:v", "vbr")
                 /\ HasPair(cmd, "-maxrate", str(B) \o "k")
                 /\ HasPair(cmd, "-bufsize", str(2 * B) \o "k")
            ELSE Tokens(cmd) \cap {"-rc:v", "-maxrate", "-bufsize"} = {}
       /\ Tokens(cmd) \cap {"-crf", "-cq:v"} = {}

\* a typed bitrate above the range reached an NVENC command as 200000k with a
\* buffer of 400000k
C27_Witness ==
  /\ Reencoded("bitrate")
  /\ call.txt = "999999" /\ call.encoder = "av1_nvenc"
  /\ HasPair(call.out.cmd, "-bufsize", "400000k")

\* C28: a re-encode command built in quality mode with value q has, for NVENC,
\* -rc:v vbr and -cq:v q; for libsvtav1 -crf q and -b:v 0; for libx265 and
\* libaom-av1 -crf q and no -b:v; q is within [0, 51] for H.265 and [0, 63]
\* for AV1.
C28_QualityFlags ==
  Reencoded("quality") =>
    LET q == call.config.crf_cq_value
        cmd == call.out.cmd
    IN /\ q >= 0 /\ q <= (IF call.config.codec = "H.265" THEN 51 ELSE 63)
       /\ CASE call.encoder \in NvencEncoders ->
                 /\ HasPair(cmd, "-rc:v", "vbr") /\ HasPair(cmd, "-cq:v", str(q))
                 /\ Tokens(cmd) \cap {"-crf", "-b:v"} = {}
            [] call.encoder = "libsvtav1" ->
                 /\ HasPair(cmd, "-crf", str(q)) /\ HasPair(cmd, "-b:v", "0")
                 /\ Tokens(cmd) \cap {"-rc:v", "-cq:v"} = {}
            [] OTHER ->
                 /\ call.encoder \in {"libx265", "libaom-av1"}
                 /\ HasPair(cmd, "-crf", str(q))
                 /\ Tokens(cmd) \cap {"-b:v", "-rc:v", "-cq:v"} = {}

\* quality 64 typed for H.265 reached libx265 as -crf 51
C28_Witness ==
  /\ Reencoded("quality")
  /\ call.txt = "64" /\ call.encoder = "libx265"
  /\ HasPair(call.out.cmd, "-crf", "51")

\* C29: once the getter of start_conversion returned a value, the field shows
\* that value (a clamped value was written back), and the rate flag of the
\* batch's commands carries the number the field shows.
C29_FieldShowsApplied ==
  (call.fn = "start" /\ call.stage \in {"started", "built"}) =>
    LET v == IF call.config.rate_mode = "bitrate" THEN call.config.bitrate_kbps
             ELSE call.config.crf_cq_value
    IN /\ call.field \in DOMAIN IntOf
       /\ IntOf[call.field] = v
       /\ (IntOf[call.txt] # v => call.field = str(v))
       /\ (IntOf[call.txt] = v => call.field = call.txt)
       /\ Reencoded("bitrate") => HasPair(call.out.cmd, "-b:v", call.field \o "k")
       /\ Reencoded("quality") =>
            \/ HasPair(call.out.cmd, "-crf", call.field)
            \/ HasPair(call.out.cmd, "-cq:v", call.field)

\* bitrate 10 was typed: the field shows 50 and the command carries 50k
C29_Witness ==
  /\ Reencoded("bitrate")
  /\ call.txt = "10" /\ call.field = "50"
  /\ HasPair(call.out.cmd, "-b:v", "50k")

\* C31 (as stated): a batch in which no file is missing, no transcode raises
\* and no cancel occurs ends with 100 as the last value emitted on
\* progress_updated, whatever the target durations (>= 0) of its files.
C31_LastValueIs100 ==
  [][(pc = "emit_finished" /\ pc' = "set_false" /\ t_files >= 1
      /\ ~raised /\ ~stopped) => emitted = 100]_vars

\* C32 (as stated): whenever the transcode process spawned for the current
\* file is alive, ConversionThread.process refers to that process (not to no
\* handle, not to the process of an earlier file).
C32_HandleTracksLiveProcess ==
  (pc \in InFile /\ proc[idx] = "alive") => process = idx

\* C33 (as stated, its at-most-once half): conversion_finished runs once for a
\* batch: whenever it runs, by the finished signal or at the end of
\* cancel_conversion, the thread of the batch is still the one that
\* conversion_thread refers to (no earlier run has cleared it).
C33_FinishedOncePerBatch ==
  [][ui_ev' \in {"finished", "cancelled"} => conversion_thread]_vars

\* C34 (as stated): after every call of start_conversion either a worker was
\* launched or Start is enabled and Cancel disabled: Start is never disabled
\* while no ConversionThread exists, whatever the input fields hold.
C34_StartDisabledOnlyWithThread ==
  (ui_pc = "idle" /\ ~conversion_thread) => (start_btn /\ ~cancel_btn)

\* C35: a running batch works on the file list and the crop ranges that
\* existed when start_conversion was called: whatever is added, removed,
\* cleared or edited in the window meanwhile, the target durations and
\* total_duration are those of that list and those ranges, and the files
\* processed are that list, in its order.
C35_BatchIsSnapshot ==
  call.fn = "thread" =>
    /\ call.stage # "start" =>
         /\ call.durations = ThreadDurations(call.files, call.crop_settings)
         /\ call.total_duration =
              TotalDuration(SumTo(call.durations, Len(call.files)))
    /\ call.processed = SubSeq(call.files, 1, call.idx)
    /\ call.stage = "done" => call.processed = call.files

\* a batch of two files, one of them cropped, went through all its files
\* after the list was emptied in the window
C35_Witness ==
  /\ call.fn = "thread"
  /\ call.stage = "done"
  /\ Len(call.files) = 2
  /\ DOMAIN call.crop_settings # {}
  /\ gui.files = <<>>
  /\ call.processed = call.files

\* C36: every run() ends: a started run reaches line 388, and the worker
\* that emitted finished returns; finished is emitted once per run, at line
\* 388 only, and a run returns only from there; _is_running is False once
\* run() has returned.  This holds whether the files complete, are missing or
\* fail, and wherever a cancel arrives, given that every process alive exits.
C36_RunEndsOnce ==
  /\ [](pc = "returned" => ~is_running)
  /\ [][finished_queue' > finished_queue =>
          (pc = "emit_finished" /\ pc' = "set_false"
           /\ finished_queue' = finished_queue + 1)]_vars
  /\ [][pc' = "returned" => pc \in {"set_false", "returned"}]_vars
  /\ [][pc = "set_false" => pc' \in {"set_false", "returned", "start"}]_vars
  /\ (pc = "start") ~> (pc = "set_false")
  /\ (pc = "set_false") ~> (pc = "returned" \/ lingering > 0)
  /\ (lingering > 0) ~> (lingering = 0)

\* a cancelled run has returned, its finished signal still queued
C36_Witness ==
  pc = "returned" /\ stopped /\ finished_queue = 1 /\ ~is_running

\* the encoders the enumeration reported (none when it failed)
GrokReported == IF call.enum_ok THEN call.encoders ELSE {}

\* C37 (as stated): Grok-4-Converter's run selects a hardware encoder
\* (hevc_nvenc for H.265, av1_nvenc for AV1) only if the enumeration reported
\* that very encoder; otherwise it selects the software encoder of the family
\* (libx265, libsvtav1) and passes the preset through unchanged.
C37_HardwareOnlyIfReported ==
  (call.fn = "grok_run" /\ call.stage = "selected") =>
    LET hw == IF call.codec = "H.265" THEN "hevc_nvenc" ELSE "av1_nvenc"
        sw == IF call.codec = "H.265" THEN "libx265" ELSE "libsvtav1"
    IN IF hw \in GrokReported
         THEN call.encoder \in {hw, sw}
         ELSE call.encoder = sw /\ call.mapped_preset = call.preset

\* positions of the colons of a text, and its k-th colon-separated piece
ColonsOf(t) == {i \in 1..Len(t) : t[i] = ":"}

PieceOf(t, k) ==
  LET cs == ColonsOf(t)
      nth(j) == CHOOSE i \in cs : Cardinality({c \in cs : c <= i}) = j
      lo == IF k = 1 THEN 0 ELSE nth(k - 1)
      hi == IF k = Cardinality(cs) + 1 THEN Len(t) + 1 ELSE nth(k)
  IN SubSeq(t, lo + 1, hi - 1)

\* p writes an integer: blanks, an optional sign, digits, blanks; a..b is the
\* signed number inside p
NumberSpan(p) ==
  {ab \in (1..Len(p)) \X (1..Len(p)) :
     /\ ab[1] <= ab[2]
     /\ \A i \in 1..(ab[1] - 1) : p[i] = " "
     /\ \A i \in (ab[2] + 1)..Len(p) : p[i] = " "
     /\ \A i \in (ab[1] + 1)..ab[2] : p[i] \in DOMAIN DigitVal
     /\ \/ p[ab[1]] \in DOMAIN DigitVal
        \/ p[ab[1]] \in {"-", "+"} /\ ab[1] < ab[2]}

NumberOf(p) ==
  LET ab == CHOOSE x \in NumberSpan(p) : TRUE
      a == ab[1]
      b == ab[2]
      first == IF p[a] \in DOMAIN DigitVal THEN a ELSE a + 1
      abs == SumTo([i \in 1..b |-> IF i < first THEN 0
                                   ELSE DigitVal[p[i]] * 10 ^ (b - i)], b)
  IN IF p[a] = "-" THEN 0 - abs ELSE abs

\* what the text denotes: None, or the seconds of its hours, minutes, seconds
SecondsOf(t) ==
  LET n == Cardinality(ColonsOf(t)) + 1
  IN IF n > 3 \/ \E k \in 1..n : NumberSpan(PieceOf(t, k)) = {} THEN None
     ELSE LET v == [k \in 1..n |-> NumberOf(PieceOf(t, k))]
              h == IF n = 3 THEN v[1] ELSE 0
              m == IF n = 3 THEN v[2] ELSE IF n = 2 THEN v[1] ELSE 0
              s == v[n]
          IN IF h >= 0 /\ m \in 0..59 /\ s \in 0..59
               THEN h * 3600 + m * 60 + s ELSE None

\* C38: parse_hhmmss(seconds_to_hhmmss(n)) = n for every n >= 0; parse_hhmmss
\* has a result for every text: None unless the text has one, two or three
\* colon-separated integer parts, none negative, minutes and seconds below 60,
\* and then h*3600 + m*60 + s.
C38_RoundTripAndParse ==
  /\ (call.fn = "round_trip" /\ call.done) => call.out = call.n
  /\ (call.fn = "parse_hhmmss" /\ call.done) => call.out = SecondsOf(call.text)

\* a two-part text with blanks was parsed: " 5:06" gives 306 seconds
C38_Witness ==
  /\ call.fn = "parse_hhmmss"
  /\ call.done
  /\ call.text = <<" ", "5", ":", "0", "6">>
  /\ call.out = 306

====
